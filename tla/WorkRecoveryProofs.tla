------------------------ MODULE WorkRecoveryProofs ------------------------
(***************************************************************************)
(* Proofs about WorkRecovery, for every bound on texts, revisions, lease   *)
(* refreshes and faults: its types, that what an opened document offers to *)
(* recover is current, that no publication puts an older text in the       *)
(* target, and that a lock loses no text; and that all of it also holds    *)
(* under the host's locks (WorkRecoveryHost).                              *)
(*                                                                         *)
(* What reaches the target was captured earlier: when a save was asked for *)
(* (and then queued), when a publication failed (and was then retained),   *)
(* or before a crash (and was then journaled).  The inductive invariant    *)
(* IInv orders these captures.  Each is ahead of what will reach the       *)
(* target before it (Order), the editor is ahead of all of them (Working), *)
(* and a retained or journaled publication holds the target's revision or  *)
(* its successor (Journal, Retention); what is based on the target's       *)
(* revision is therefore not behind the target's text (Bases), which is    *)
(* why comparing bases is enough to reject outdated work (Recovered).      *)
(***************************************************************************)
EXTENDS WorkRecoveryHost, SequenceTheorems, TLAPS

Distinct(q) == \A i, j \in 1 .. Len(q) : q[i] = q[j] => i = j

Waits(q, e) == \E i \in 1 .. Len(q) : q[i] = e
InOrder(q, first, second) ==
  \E i, j \in 1 .. Len(q) : i < j /\ q[i] = first /\ q[j] = second

(* Where a purpose waits or runs: in the queue, or in the publication under *)
(* way.  A regular save first waits for the checkpoint it asked for.        *)
Queued(purpose) == Waits(queue, purpose)
Before(first, second) == InOrder(queue, first, second)
Publishes(purpose) == pub # None /\ pub.purpose = purpose
ManualWaits == manual # None /\ manual.step # "adopting" /\ ~Publishes("manual")
RegularWaits == regular # None /\ ~Publishes("regular")
RegularFlushing == flush # None /\ flush.owner = "regular"

(* The publication under way has not replaced the target yet. *)
Unreplaced == pub # None /\ pub.step \in {"preparing", "prepared", "staged"}

(* A publication retained for a retry, and what a retained or journaled one *)
(* may put in the target: what is there already, or its successor.          *)
Retained == session.record # None /\ session.record.pub # None
Succeeds(image) == image.rev = target.rev + 1 /\ image.text >= target.text
Replayable(r) ==
  /\ r.pub.image = target \/ Succeeds(r.pub.image)
  /\ r.pub.preserve => r.text >= r.pub.image.text

(* Each save is in one place: queued, draining, publishing or adopting. *)
Lines ==
  /\ Distinct(queue)
  /\ Queued("manual") => ManualWaits /\ manual.step = "queued"
  /\ ManualWaits => Queued("manual") \/ manual.step = "drain"
  /\ manual # None /\ manual.step = "drain" => flush # None
  /\ Publishes("manual") => manual # None /\ manual.step = "queued"
  /\ Queued("regular") => RegularWaits /\ ~RegularFlushing
  /\ RegularWaits => Queued("regular") \/ RegularFlushing
  /\ RegularFlushing => RegularWaits
  /\ Publishes("regular") => regular # None

(* What may run in a mode: a session that only views acquires at most. *)
Modes ==
  /\ mode = "closed" => session = NoSession
  /\ mode = "viewing" =>
       /\ flush = None /\ queue = <<>>
       /\ manual = None /\ regular = None /\ late = None
       /\ ~session.dirty /\ session.record = None /\ session.opened = target.text
  /\ Publishes("acquire") <=> (mode = "viewing" /\ pub # None)

(* The revisions that the saves under way may still add, within the bound. *)
ManualOwes == ManualWaits \/ (Publishes("manual") /\ Unreplaced)
RegularOwes == RegularWaits \/ (Publishes("regular") /\ Unreplaced)
RetainedOwes == Retained /\ session.record.pub.image # target
Owed == (IF ManualOwes THEN 1 ELSE 0) + (IF RegularOwes THEN 1 ELSE 0)
          + (IF RetainedOwes THEN 1 ELSE 0)
Budget == target.rev + Owed <= MaxRevision

(* A publication puts the target, or its successor, in the target.  Only a *)
(* lease change preserves work, which the target does not hold yet.        *)
Publication ==
  pub # None =>
    /\ ~Unreplaced => pub.image = target
    /\ Unreplaced /\ pub.purpose \in {"acquire", "refresh"} => pub.image = target
    /\ Unreplaced /\ pub.purpose \in {"manual", "regular"} => Succeeds(pub.image)
    /\ pub.preserve => pub.text >= pub.image.text
    /\ pub.purpose \in {"manual", "regular"} => ~pub.preserve

(* What a crash leaves can be completed, and is that of the publication    *)
(* under way; journaled work over the current revision is not outdated.    *)
Journal ==
  journal # None =>
    /\ journal.pub # None => Replayable(journal)
    /\ journal.pub # None /\ pub # None /\ pub.step # "preparing" =>
         pub.step # "cleaned" /\ journal.pub.image = pub.image
    /\ journal.pub = None /\ journal.base = target.rev => journal.text >= target.text

(* A publication becomes pending only by its end; a retained one is pending *)
(* and can be completed.                                                    *)
Retention ==
  /\ session.pending => pub = None
  /\ Retained => session.pending /\ Replayable(session.record)

(* No write under way, and nothing remembered, is based on a later revision *)
(* than the target's; what is based on the target's is not outdated.        *)
Bases ==
  /\ session.base <= target.rev
  /\ pub # None => pub.base <= target.rev
  /\ journal # None => journal.base <= target.rev
  /\ session.record # None => session.record.base <= target.rev
  /\ flush # None /\ flush.step = "writing" =>
       /\ flush.base <= target.rev
       /\ flush.base = target.rev => flush.text >= target.text
  /\ late # None =>
       /\ late.base <= target.rev
       /\ late.base = target.rev => late.text >= target.text

(* RecoveryIsCurrent, with what restoring the offered work puts in the     *)
(* editor; a live session that still has work to recover is not clean.     *)
Recovered ==
  /\ RecoveryIsCurrent
  /\ mode = "viewing" /\ session.recovery # None =>
       session.recovery.text \in {session.recovery.offered, Undefined}
  /\ Live /\ session.recovery # None => session.dirty \/ session.pending

(* The editor is never behind the target or a save under way.  While its   *)
(* text is undefined nothing can be saved.                                 *)
Working ==
  /\ Live /\ session.working # Undefined =>
       /\ session.working >= target.text
       /\ pub # None => session.working >= pub.image.text
       /\ manual # None => session.working >= manual.text
       /\ regular # None => session.working >= regular
       /\ Retained => session.working >= session.record.pub.image.text
  /\ Live /\ session.working = Undefined =>
       /\ session.opened = target.text
       /\ manual = None /\ regular = None /\ ~Retained
       /\ pub # None => pub.purpose = "refresh"

(* A waiting save is not behind what will reach the target before it: the  *)
(* target, the publication under way, the retained one, or the other save  *)
(* when that waits before it.                                              *)
Ahead(text) ==
  /\ text >= target.text
  /\ pub # None => text >= pub.image.text
  /\ Retained => text >= session.record.pub.image.text
Order ==
  Live =>
    /\ ManualWaits => Ahead(manual.text)
    /\ RegularWaits => Ahead(regular)
    /\ manual # None /\ manual.step = "drain" /\ RegularWaits => manual.text >= regular
    /\ Queued("manual") /\ RegularFlushing => regular >= manual.text
    /\ Before("manual", "regular") => regular >= manual.text
    /\ Before("regular", "manual") => manual.text >= regular

(* No text is newer than the last one typed. *)
RecordTyped(r) ==
  r.text <= newest /\ (r.pub # None => r.pub.image.text <= newest)
Typed ==
  /\ target.text <= newest
  /\ journal # None => RecordTyped(journal)
  /\ session.opened <= newest
  /\ session.working # Undefined => session.working <= newest
  /\ session.recovery # None =>
       /\ session.recovery.offered <= newest
       /\ session.recovery.text # Undefined => session.recovery.text <= newest
  /\ session.record # None => RecordTyped(session.record)
  /\ flush # None /\ flush.step = "writing" => flush.text <= newest
  /\ late # None => late.text <= newest
  /\ pub # None => pub.text <= newest /\ pub.image.text <= newest
  /\ manual # None => manual.text <= newest
  /\ regular # None => regular <= newest

IInv ==
  /\ TypeOK /\ Lines /\ Modes /\ Budget /\ Publication /\ Journal /\ Retention
  /\ Bases /\ Recovered /\ Working /\ Order /\ Typed

(* TypeOK, field by field: what the arithmetic of the steps needs. *)
Fields ==
  /\ target.text \in Nat /\ target.rev \in Nat
  /\ journal # None => /\ journal.text \in Nat /\ journal.base \in Nat
                       /\ journal.pub # None => journal.pub.image.text \in Nat
  /\ session.opened \in Nat /\ session.base \in Nat
  /\ session.dirty \in BOOLEAN /\ session.pending \in BOOLEAN
  /\ session.working # Undefined => session.working \in Nat
  /\ session.recovery # None =>
       /\ session.recovery.offered \in Nat
       /\ session.recovery.text # Undefined => session.recovery.text \in Nat
  /\ session.record # None =>
       /\ session.record.text \in Nat /\ session.record.base \in Nat
       /\ session.record.pub # None => session.record.pub.image.text \in Nat
  /\ flush # None => /\ flush.step \in {"reading", "writing"}
                     /\ flush.step = "writing" => flush.text \in Nat /\ flush.base \in Nat
  /\ pub # None => /\ pub.step \in PubSteps /\ pub.purpose \in Purposes
                   /\ pub.text \in Nat /\ pub.base \in Nat
                   /\ pub.image.text \in Nat /\ pub.image.rev \in Nat
  /\ manual # None => manual.text \in Nat /\ manual.step \in {"drain", "queued", "adopting"}
  /\ regular # None => regular \in Nat
  /\ late # None => late.text \in Nat /\ late.base \in Nat
  /\ queue \in Seq(Waiting) /\ newest \in Nat

(* What the type invariant says of each field. *)
LEMMA FieldsAreTyped == ASSUME TypeOK PROVE Fields
<1>1. /\ target.text \in Nat /\ target.rev \in Nat /\ newest \in Nat
      /\ queue \in Seq(Waiting)
  BY BoundsAreNaturals DEF TypeOK, Images, Texts, Revisions
<1>2. journal # None => /\ journal.text \in Nat /\ journal.base \in Nat
                        /\ journal.pub # None => journal.pub.image.text \in Nat
  BY DEF TypeOK, Records, Journaled, Images, Texts, Revisions
<1>3. /\ session.opened \in Nat /\ session.base \in Nat
      /\ session.dirty \in BOOLEAN /\ session.pending \in BOOLEAN
      /\ session.working # Undefined => session.working \in Nat
  BY BoundsAreNaturals DEF TypeOK, Session, Texts, Revisions
<1>4. session.recovery # None =>
        /\ session.recovery.offered \in Nat
        /\ session.recovery.text # Undefined => session.recovery.text \in Nat
  BY BoundsAreNaturals DEF TypeOK, Session, Texts
<1>5. session.record # None =>
        /\ session.record.text \in Nat /\ session.record.base \in Nat
        /\ session.record.pub # None => session.record.pub.image.text \in Nat
  <2>1. session.record \in Records \cup {None}
    BY DEF TypeOK, Session
  <2>. QED BY <2>1 DEF Records, Journaled, Images, Texts, Revisions
<1>6. flush # None => /\ flush.step \in {"reading", "writing"}
                      /\ flush.step = "writing" => flush.text \in Nat /\ flush.base \in Nat
  BY DEF TypeOK, Flushes, Texts, Revisions
<1>7. pub # None => /\ pub.step \in PubSteps /\ pub.purpose \in Purposes
                    /\ pub.text \in Nat /\ pub.base \in Nat
                    /\ pub.image.text \in Nat /\ pub.image.rev \in Nat
  BY DEF TypeOK, Publications, Images, Texts, Revisions
<1>8. /\ manual # None => manual.text \in Nat /\ manual.step \in {"drain", "queued", "adopting"}
      /\ regular # None => regular \in Nat
      /\ late # None => late.text \in Nat /\ late.base \in Nat
  BY DEF TypeOK, ManualSaves, Checkpoints, Texts, Revisions
<1>. QED BY <1>1, <1>2, <1>3, <1>4, <1>5, <1>6, <1>7, <1>8 DEF Fields

(* A queue that holds nothing twice holds at most a manual save, a regular *)
(* one and a lease refresh.                                                *)
LEMMA DistinctIsShort ==
  ASSUME NEW q \in Seq(Waiting), Distinct(q)
  PROVE  Len(q) <= 3
<1>1. Len(q) \in Nat /\ \A i \in 1 .. Len(q) : q[i] \in Waiting
  OBVIOUS
<1>2. SUFFICES ASSUME Len(q) > 3 PROVE FALSE
  BY <1>1
<1>3. /\ 1 \in 1 .. Len(q) /\ 2 \in 1 .. Len(q)
      /\ 3 \in 1 .. Len(q) /\ 4 \in 1 .. Len(q)
  BY <1>1, <1>2
<1>4. /\ q[1] \in Waiting /\ q[2] \in Waiting
      /\ q[3] \in Waiting /\ q[4] \in Waiting
  BY <1>1, <1>3
<1>5. /\ q[1] # q[2] /\ q[1] # q[3] /\ q[1] # q[4]
      /\ q[2] # q[3] /\ q[2] # q[4] /\ q[3] # q[4]
  BY <1>3 DEF Distinct
<1>. QED BY <1>4, <1>5 DEF Waiting, Purposes

(* What is left of the queue without its head. *)
LEMMA TailOfQueue ==
  ASSUME NEW q \in Seq(Waiting), q # <<>>
  PROVE  /\ Tail(q) \in Seq(Waiting) /\ Len(q) \in Nat
         /\ Len(q) >= 1 /\ Head(q) = q[1] /\ Len(Tail(q)) = Len(q) - 1
         /\ \A i \in 1 .. Len(Tail(q)) : i + 1 \in 1 .. Len(q) /\ Tail(q)[i] = q[i + 1]
OBVIOUS

(* What the queue is with one more at its end. *)
LEMMA QueueWithOneMore ==
  ASSUME NEW q \in Seq(Waiting), NEW e \in Waiting
  PROVE  /\ Append(q, e) \in Seq(Waiting) /\ Len(q) \in Nat
         /\ Len(Append(q, e)) = Len(q) + 1 /\ Append(q, e)[Len(q) + 1] = e
         /\ \A i \in 1 .. Len(q) : Append(q, e)[i] = q[i]
OBVIOUS

(* The head leaves the queue: the others wait in the order they had. *)
LEMMA Dequeued ==
  ASSUME queue \in Seq(Waiting), Distinct(queue), queue # <<>>, queue' = Tail(queue)
  PROVE  /\ queue' \in Seq(Waiting) /\ Distinct(queue') /\ Len(queue') <= 3
         /\ Queued(Head(queue)) /\ Head(queue) \in Waiting
         /\ \A p : Queued(p)' <=> Queued(p) /\ p # Head(queue)
         /\ \A p, q : Before(p, q)' => Before(p, q) /\ Queued(p)' /\ Queued(q)'
         /\ \A p : Queued(p) /\ p # Head(queue) => Before(Head(queue), p)
<1>1. /\ queue' \in Seq(Waiting) /\ Len(queue) \in Nat
      /\ Len(queue) >= 1 /\ Head(queue) = queue[1] /\ Len(queue') = Len(queue) - 1
      /\ \A i \in 1 .. Len(queue') : i + 1 \in 1 .. Len(queue) /\ queue'[i] = queue[i + 1]
  BY TailOfQueue
<1>2. \A i \in 1 .. Len(queue) : i # 1 => i - 1 \in 1 .. Len(queue') /\ queue[i] = queue'[i - 1]
  BY <1>1
<1>3. Distinct(queue')
  BY <1>1 DEF Distinct
<1>4. Queued(Head(queue)) /\ Head(queue) \in Waiting
  BY <1>1 DEF Queued, Waits
<1>5. \A p : Queued(p)' <=> Queued(p) /\ p # Head(queue)
  <2>. TAKE p
  <2>1. ASSUME Queued(p)' PROVE Queued(p) /\ p # Head(queue)
    <3>1. PICK i \in 1 .. Len(queue') : queue'[i] = p
      BY <2>1 DEF Queued, Waits
    <3>2. i + 1 \in 1 .. Len(queue) /\ queue[i + 1] = p /\ i + 1 # 1 /\ 1 \in 1 .. Len(queue)
      BY <1>1, <3>1
    <3>. QED BY <1>1, <3>2 DEF Queued, Waits, Distinct
  <2>2. ASSUME Queued(p), p # Head(queue) PROVE Queued(p)'
    <3>1. PICK i \in 1 .. Len(queue) : queue[i] = p
      BY <2>2 DEF Queued, Waits
    <3>. QED BY <1>1, <1>2, <2>2, <3>1 DEF Queued, Waits
  <2>. QED BY <2>1, <2>2
<1>6. \A p, q : Before(p, q)' => Before(p, q) /\ Queued(p)' /\ Queued(q)'
  <2>. SUFFICES ASSUME NEW p, NEW q, Before(p, q)'
                PROVE  Before(p, q) /\ Queued(p)' /\ Queued(q)'
    OBVIOUS
  <2>1. PICK i \in 1 .. Len(queue'), j \in 1 .. Len(queue') :
          i < j /\ queue'[i] = p /\ queue'[j] = q
    BY DEF Before, InOrder
  <2>2. i + 1 < j + 1
    BY <2>1, <1>1
  <2>3. Before(p, q)
    BY <1>1, <2>1, <2>2 DEF Before, InOrder
  <2>. QED BY <2>1, <2>3 DEF Queued, Waits
<1>7. \A p : Queued(p) /\ p # Head(queue) => Before(Head(queue), p)
  <2>. SUFFICES ASSUME NEW p, Queued(p), p # Head(queue) PROVE Before(Head(queue), p)
    OBVIOUS
  <2>1. PICK j \in 1 .. Len(queue) : queue[j] = p
    BY DEF Queued, Waits
  <2>2. 1 \in 1 .. Len(queue) /\ 1 < j
    BY <1>1, <2>1
  <2>. QED BY <1>1, <2>1, <2>2 DEF Before, InOrder
<1>. QED BY <1>1, <1>3, <1>4, <1>5, <1>6, <1>7, DistinctIsShort

(* What is not queued yet joins the queue behind all that waits. *)
LEMMA OneMoreWaits ==
  ASSUME NEW q \in Seq(Waiting), Distinct(q), NEW e \in Waiting, ~Waits(q, e),
         NEW r, r = Append(q, e)
  PROVE  /\ r \in Seq(Waiting) /\ Distinct(r)
         /\ r # <<>>
         /\ \A p : Waits(r, p) <=> Waits(q, p) \/ p = e
         /\ \A o, p : InOrder(r, o, p)
                        => InOrder(q, o, p) \/ (Waits(q, o) /\ p = e)
<1>1. /\ r \in Seq(Waiting) /\ Len(q) \in Nat
      /\ Len(r) = Len(q) + 1 /\ r[Len(q) + 1] = e
      /\ \A i \in 1 .. Len(q) : r[i] = q[i]
  BY QueueWithOneMore
<1>2. \A i \in 1 .. Len(r) :
        \/ i \in 1 .. Len(q) /\ r[i] = q[i]
        \/ i = Len(q) + 1 /\ r[i] = e
  BY <1>1
<1>3. Distinct(r)
  BY <1>1, <1>2 DEF Distinct, Waits
<1>4. \A p : Waits(r, p) <=> Waits(q, p) \/ p = e
  <2>. TAKE p
  <2>1. Waits(r, p) => Waits(q, p) \/ p = e
    BY <1>2 DEF Waits
  <2>2. Waits(q, p) \/ p = e => Waits(r, p)
    <3>1. Len(q) + 1 \in 1 .. Len(r) /\ 1 .. Len(q) \subseteq 1 .. Len(r)
      BY <1>1
    <3>. QED BY <1>1, <3>1 DEF Waits
  <2>. QED BY <2>1, <2>2
<1>5. \A o, p : InOrder(r, o, p) => InOrder(q, o, p) \/ (Waits(q, o) /\ p = e)
  <2>. SUFFICES ASSUME NEW o, NEW p, InOrder(r, o, p)
                PROVE  InOrder(q, o, p) \/ (Waits(q, o) /\ p = e)
    OBVIOUS
  <2>1. PICK i \in 1 .. Len(r), j \in 1 .. Len(r) : i < j /\ r[i] = o /\ r[j] = p
    BY DEF InOrder
  <2>2. i \in 1 .. Len(q) /\ q[i] = o
    BY <1>1, <1>2, <2>1
  <2>3. CASE j \in 1 .. Len(q) /\ r[j] = q[j]
    BY <2>1, <2>2, <2>3 DEF InOrder
  <2>4. CASE j = Len(q) + 1 /\ r[j] = e
    BY <2>1, <2>2, <2>4 DEF Waits
  <2>. QED BY <1>2, <2>3, <2>4
<1>6. r # <<>>
  BY <1>1
<1>. QED BY <1>1, <1>3, <1>4, <1>5, <1>6

(* What joins the queue waits behind all that waits already. *)
LEMMA Enqueued ==
  ASSUME queue \in Seq(Waiting), Distinct(queue), NEW e \in Waiting,
         ~Queued(e), queue' = Append(queue, e)
  PROVE  /\ queue' \in Seq(Waiting) /\ Distinct(queue') /\ Len(queue') <= 3
         /\ queue' # <<>>
         /\ \A p : Queued(p)' <=> Queued(p) \/ p = e
         /\ \A p, q : Before(p, q)' => Before(p, q) \/ (Queued(p) /\ q = e)
BY OneMoreWaits, DistinctIsShort DEF Queued, Before

(* What a checkpoint was waited for goes on: a regular save, then a manual *)
(* one.                                                                    *)
LEMMA FlushEndsQueue ==
  ASSUME TypeOK, Lines, NEW ok \in BOOLEAN, flush # None, FlushEnds(ok),
         NEW saved, saved = (RegularFlushing /\ ok),
         NEW drained, drained = (manual # None /\ manual.step = "drain")
  PROVE  /\ queue' \in Seq(Waiting) /\ Distinct(queue') /\ Len(queue') <= 3
         /\ \A p : Queued(p)' <=> \/ Queued(p)
                                  \/ saved /\ p = "regular"
                                  \/ drained /\ p = "manual"
         /\ \A p, q : Before(p, q)' =>
              \/ Before(p, q)
              \/ saved /\ q = "regular" /\ Queued(p)
              \/ drained /\ q = "manual" /\ (Queued(p) \/ (saved /\ p = "regular"))
<1>1. /\ queue \in Seq(Waiting) /\ Distinct(queue)
      /\ "regular" \in Waiting /\ "manual" \in Waiting
  BY DEF TypeOK, Lines, Waiting, Purposes
<1>2. saved => ~Waits(queue, "regular")
  BY DEF Lines, Queued
<1>3. drained => ~Waits(queue, "manual")
  BY DEF Lines, Queued, ManualWaits, Publishes
<1> DEFINE middle == IF saved THEN Append(queue, "regular") ELSE queue
           last == IF drained THEN Append(middle, "manual") ELSE middle
<1>4. queue' = last
  <2>1. queue' = queue \o (IF saved THEN <<"regular">> ELSE <<>>)
                      \o (IF drained THEN <<"manual">> ELSE <<>>)
    BY DEF FlushEnds, RegularFlushing
  <2>2. /\ queue \o <<"regular">> = Append(queue, "regular")
        /\ queue \o <<>> = queue
    BY <1>1
  <2>3. middle \in Seq(Waiting)
    BY <1>1
  <2>. HIDE DEF middle
  <2>4. /\ middle \o <<"manual">> = Append(middle, "manual")
        /\ middle \o <<>> = middle
    BY <1>1, <2>3
  <2>. QED BY <2>1, <2>2, <2>4 DEF middle
<1>5. /\ middle \in Seq(Waiting) /\ Distinct(middle)
      /\ \A p : Waits(middle, p) <=> Waits(queue, p) \/ (saved /\ p = "regular")
      /\ \A p, q : InOrder(middle, p, q) =>
           InOrder(queue, p, q) \/ (saved /\ q = "regular" /\ Waits(queue, p))
  BY <1>1, <1>2, OneMoreWaits
<1>6. drained => ~Waits(middle, "manual")
  BY <1>3, <1>5
<1>. HIDE DEF middle
<1>7. /\ last \in Seq(Waiting) /\ Distinct(last)
      /\ \A p : Waits(last, p) <=> Waits(middle, p) \/ (drained /\ p = "manual")
      /\ \A p, q : InOrder(last, p, q) =>
           InOrder(middle, p, q) \/ (drained /\ q = "manual" /\ Waits(middle, p))
  <2>1. CASE drained
    <3>1. last = Append(middle, "manual")
      BY <2>1
    <3>. HIDE DEF last
    <3>2. /\ last \in Seq(Waiting) /\ Distinct(last)
          /\ \A p : Waits(last, p) <=> Waits(middle, p) \/ p = "manual"
          /\ \A p, q : InOrder(last, p, q) =>
               InOrder(middle, p, q) \/ (Waits(middle, p) /\ q = "manual")
      <4>1. /\ middle \in Seq(Waiting) /\ Distinct(middle)
            /\ "manual" \in Waiting /\ ~Waits(middle, "manual")
        BY <1>1, <1>5, <1>6, <2>1
      <4>. QED BY ONLY <3>1, <4>1, OneMoreWaits, ZenonT(30)
    <3>. QED BY <2>1, <3>2
  <2>2. CASE ~drained
    BY <1>5, <2>2
  <2>. QED BY <2>1, <2>2
<1>. HIDE DEF last
<1>. QED BY <1>4, <1>5, <1>7, DistinctIsShort DEF Queued, Before

(* What a publication starts with. *)
LEMMA Started ==
  ASSUME TypeOK, NEW purpose \in Purposes, NEW text \in Texts,
         NEW preserve \in BOOLEAN, NEW image \in Images,
         Start(purpose, text, preserve, image)
  PROVE  /\ pub' \in Publications /\ pub' # None
         /\ pub'.step = "preparing" /\ pub'.purpose = purpose
         /\ pub'.text = text /\ pub'.base = session.base
         /\ pub'.preserve = preserve /\ pub'.image = image
<1>1. session.base \in Revisions /\ session.key \in Keys
  BY DEF TypeOK, Session
<1>2. pub' \in Publications
  BY <1>1 DEF Start, Publications, PubSteps
<1>. QED BY <1>2, NoValues DEF Start

(* A lease change carries the unsaved text, which is not behind the target. *)
LEMMA LeaseStarted ==
  ASSUME TypeOK, NEW purpose \in Purposes, StartLease(purpose)
  PROVE  /\ pub' \in Publications /\ pub' # None
         /\ pub'.step = "preparing" /\ pub'.purpose = purpose
         /\ pub'.text = (IF LeaseWork \in Texts THEN LeaseWork ELSE session.opened)
         /\ pub'.base = session.base
         /\ pub'.preserve = (LeaseWork # None) /\ pub'.image = target
<1> DEFINE text == IF LeaseWork \in Texts THEN LeaseWork ELSE session.opened
<1>1. text \in Texts /\ (LeaseWork # None) \in BOOLEAN /\ target \in Images
  BY DEF TypeOK, Session
<1>2. Start(purpose, text, LeaseWork # None, target)
  BY DEF StartLease
<1>. HIDE DEF text
<1>3. /\ pub' \in Publications /\ pub' # None
      /\ pub'.step = "preparing" /\ pub'.purpose = purpose
      /\ pub'.text = text /\ pub'.base = session.base
      /\ pub'.preserve = (LeaseWork # None) /\ pub'.image = target
  BY <1>1, <1>2, Started
<1>. QED BY <1>3 DEF text

(* While the target stays, the bound holds as long as nothing more is owed. *)
LEMMA NothingMoreOwed ==
  ASSUME Fields, Budget, target' = target, ManualOwes' => ManualOwes,
         RegularOwes' => RegularOwes, RetainedOwes' => RetainedOwes
  PROVE  Budget'
<1>1. Owed \in Nat /\ Owed' \in Nat /\ Owed' <= Owed
  BY DEF Owed
<1>. QED BY <1>1, BoundsAreNaturals DEF Budget, Fields

(* A lease change that starts preserves no text older than the target's. *)
LEMMA LeaseTextIsCurrent ==
  ASSUME TypeOK, Modes, Recovered, Working, Typed, ~session.pending,
         mode \in {"viewing", "editing"}, NEW text,
         text = IF LeaseWork \in Texts THEN LeaseWork ELSE session.opened
  PROVE  /\ text <= newest
         /\ LeaseWork # None => text >= target.text
<1>1. Fields
  BY FieldsAreTyped
<1>2. /\ session.working \in Texts \cup {Undefined}
      /\ session.recovery # None =>
           session.recovery.text \in Texts \cup {Undefined}
      /\ Undefined \notin Texts /\ None \notin Texts /\ Undefined # None
  BY BoundsAreNaturals, NoValues DEF TypeOK, Session, Texts
<1>3. CASE mode = "viewing"
  BY <1>1, <1>2, <1>3
     DEF Fields, LeaseWork, Modes, Recovered, RecoveryIsCurrent, Typed
<1>4. CASE mode = "editing"
  BY <1>1, <1>2, <1>4 DEF Fields, LeaseWork, Live, Recovered, Working, Typed
<1>. QED BY <1>3, <1>4

(* What each part of the invariant is about. *)
LEMMA Unaffected ==
  /\ Lines /\ UNCHANGED <<queue, manual, regular, flush, pub>> => Lines'
  /\ Modes /\ UNCHANGED <<mode, session, flush, queue, manual, regular, late, pub,
                           target>>
       => Modes'
  /\ Budget /\ UNCHANGED <<target, manual, regular, pub, session>> => Budget'
  /\ Publication /\ UNCHANGED <<pub, target>> => Publication'
  /\ Journal /\ UNCHANGED <<journal, target, pub>> => Journal'
  /\ Retention /\ UNCHANGED <<session, pub, target>> => Retention'
  /\ Bases /\ UNCHANGED <<session, target, pub, journal, flush, late>> => Bases'
  /\ Recovered /\ UNCHANGED <<mode, session, target>> => Recovered'
  /\ Working /\ UNCHANGED <<mode, session, target, pub, manual, regular>> => Working'
  /\ Typed /\ UNCHANGED <<target, journal, session, flush, late, pub, manual,
                           regular, newest>>
       => Typed'
  /\ Order /\ UNCHANGED <<mode, manual, regular, pub, session, target, queue, flush>>
       => Order'
<1>1. Lines /\ UNCHANGED <<queue, manual, regular, flush, pub>> => Lines'
  BY DEF Lines, Queued, Publishes, ManualWaits, RegularWaits, RegularFlushing
<1>2. Modes /\ UNCHANGED <<mode, session, flush, queue, manual, regular, late, pub, target>>
        => Modes'
  BY DEF Modes, Publishes
<1>3. Budget /\ UNCHANGED <<target, manual, regular, pub, session>> => Budget'
  BY DEF Budget, Owed, ManualOwes, RegularOwes, RetainedOwes, Retained,
         Publishes, Unreplaced, ManualWaits, RegularWaits
<1>4. Publication /\ UNCHANGED <<pub, target>> => Publication'
  BY DEF Publication, Unreplaced, Succeeds
<1>5. Journal /\ UNCHANGED <<journal, target, pub>> => Journal'
  BY DEF Journal, Replayable, Succeeds
<1>6. Retention /\ UNCHANGED <<session, pub, target>> => Retention'
  BY DEF Retention, Retained, Replayable, Succeeds
<1>7. Bases /\ UNCHANGED <<session, target, pub, journal, flush, late>> => Bases'
  BY DEF Bases
<1>8. Recovered /\ UNCHANGED <<mode, session, target>> => Recovered'
  BY DEF Recovered, RecoveryIsCurrent, Live
<1>9. Working /\ UNCHANGED <<mode, session, target, pub, manual, regular>> => Working'
  BY DEF Working, Live, Retained
<1>10. Typed /\ UNCHANGED <<target, journal, session, flush, late, pub, manual, regular, newest>>
         => Typed'
  BY DEF Typed, RecordTyped
<1>11. Order /\ UNCHANGED <<mode, manual, regular, pub, session, target, queue, flush>>
         => Order'
  BY DEF Order, Live, Ahead, Retained, ManualWaits, RegularWaits,
         RegularFlushing, Publishes, Queued, Before
<1>. QED BY <1>1, <1>2, <1>3, <1>4, <1>5, <1>6, <1>7, <1>8, <1>9, <1>10, <1>11

(* When the target moves to its successor, what was based on the old one   *)
(* is based on an earlier revision.                                        *)
LEMMA BasesStayBehind ==
  ASSUME Fields, target'.rev \in Nat, target' = target \/ Succeeds(target'),
         NEW base \in Nat, base <= target.rev
  PROVE  base <= target'.rev /\ (base = target'.rev => target' = target)
BY DEF Fields, Succeeds

Offers == [offered: Texts, text: Texts \cup {Undefined}]

(* What a session starts with. *)
LEMMA SessionOpened ==
  ASSUME NEW image \in Images, NEW recovery \in Offers \cup {None},
         OpenedAs(image, recovery)
  PROVE  /\ session' \in Session
         /\ session'.working = image.text /\ session'.opened = image.text
         /\ session'.base = image.rev /\ session'.recovery = recovery
         /\ session'.dirty = FALSE /\ session'.pending = FALSE
         /\ session'.record = None
<1>1. session' = [working |-> image.text, dirty |-> FALSE, opened |-> image.text,
                  base |-> image.rev, sealed |-> image.sealed,
                  recovery |-> recovery, key |-> "good", pending |-> FALSE,
                  record |-> None]
  BY DEF OpenedAs, NoSession
<1>2. /\ image.text \in Texts /\ image.rev \in Revisions
      /\ image.sealed \in BOOLEAN
  BY DEF Images
<1>. QED BY <1>1, <1>2 DEF Session, Keys, Offers

(* What is left once it ends: only the key of a publication under way has *)
(* changed.                                                               *)
LEMMA SessionEnded ==
  ASSUME TypeOK, EndSession
  PROVE  /\ session' = NoSession /\ mode' = "closed" /\ timer' = FALSE
         /\ session' \in Session /\ session'.base = 0 /\ session'.opened = 0
         /\ session'.working = 0 /\ session'.working # Undefined
         /\ session'.recovery = None /\ session'.record = None
         /\ session'.pending = FALSE
         /\ pub' \in Publications \cup {None}
         /\ pub = None => pub' = None
         /\ pub # None =>
              /\ pub' # None /\ pub'.step = pub.step /\ pub'.purpose = pub.purpose
              /\ pub'.text = pub.text /\ pub'.base = pub.base
              /\ pub'.image = pub.image /\ pub'.preserve = pub.preserve
<1>1. /\ session' = NoSession /\ mode' = "closed" /\ timer' = FALSE
      /\ session' \in Session /\ session'.base = 0 /\ session'.opened = 0
      /\ session'.working = 0 /\ session'.working # Undefined
      /\ session'.recovery = None /\ session'.record = None
      /\ session'.pending = FALSE
  BY BoundsAreNaturals, NoValues
     DEF EndSession, NoSession, Session, Texts, Revisions, Keys
<1>2. CASE pub = None
  BY <1>1, <1>2 DEF EndSession
<1>3. CASE pub # None
  <2>1. pub \in Publications /\ pub' = [pub EXCEPT !.key = "zero"]
    BY <1>3 DEF TypeOK, EndSession
  <2>2. pub' \in Publications
    BY <2>1 DEF Publications, Keys
  <2>3. /\ pub'.step = pub.step /\ pub'.purpose = pub.purpose
        /\ pub'.text = pub.text /\ pub'.base = pub.base
        /\ pub'.image = pub.image /\ pub'.preserve = pub.preserve
    BY <2>1 DEF Publications
  <2>. QED BY <1>1, <1>3, <2>2, <2>3, NoValues
<1>. QED BY <1>2, <1>3

(* While nothing more waits, what waits is still ahead of the target. *)
LEMMA OrderStays ==
  ASSUME Order, Lines', Live' => Live, queue' = queue,
         target'.text = target.text,
         ManualWaits' => ManualWaits, RegularWaits' => RegularWaits,
         RegularFlushing' => RegularFlushing,
         manual' # None => manual # None /\ manual' = manual,
         regular' # None => regular # None /\ regular' = regular,
         pub' # None => pub # None /\ pub'.image = pub.image,
         Retained' => \/ Retained /\ session'.record = session.record
                      \/ pub # None /\ session'.record.pub.image = pub.image
  PROVE  Order'
<1>1. SUFFICES ASSUME Live' PROVE Order'
  BY DEF Order
<1>2. \A text : Ahead(text) => Ahead(text)'
  BY DEF Ahead
<1>3. /\ ManualWaits' => manual' = manual /\ ManualWaits
      /\ RegularWaits' => regular' = regular /\ RegularWaits
  BY DEF ManualWaits, RegularWaits
<1>4. /\ \A p : Queued(p)' <=> Queued(p)
      /\ \A p, q : Before(p, q)' <=> Before(p, q)
      /\ \A p, q : Before(p, q) => Queued(p) /\ Queued(q)
  BY DEF Queued, Before, Waits, InOrder
<1>5. /\ Queued("manual")' => ManualWaits'
      /\ Queued("regular")' => RegularWaits'
      /\ RegularFlushing' => RegularWaits'
  BY DEF Lines
<1>6. /\ ManualWaits' => Ahead(manual.text)'
      /\ RegularWaits' => Ahead(regular)'
  BY <1>1, <1>2, <1>3 DEF Order
<1>. QED BY <1>1, <1>3, <1>4, <1>5, <1>6 DEF Order

(* A checkpoint ends, saved or failed. *)
LEMMA FlushEndsKeeps ==
  ASSUME IInv, NEW ok \in BOOLEAN, flush # None, FlushEnds(ok), target' = target, late' = late,
         newest' = newest, refreshes' = refreshes,
         faults' \in 0..MaxFaults, journal' \in Records \cup {None},
         \/ journal' = journal
         \/ /\ journal' # None /\ journal'.pub = None
            /\ journal'.base <= target.rev
            /\ journal'.base = target.rev => journal'.text >= target.text
            /\ journal'.text <= newest
  PROVE  IInv'
<1>. USE DEF IInv
<1>1. Fields
  BY FieldsAreTyped
<1> DEFINE saved == RegularFlushing /\ ok
           drained == manual # None /\ manual.step = "drain"
<1>2. /\ queue' \in Seq(Waiting) /\ Distinct(queue') /\ Len(queue') <= 3
      /\ \A p : Queued(p)' <=> \/ Queued(p)
                               \/ saved /\ p = "regular"
                               \/ drained /\ p = "manual"
      /\ \A p, q : Before(p, q)' =>
           \/ Before(p, q)
           \/ saved /\ q = "regular" /\ Queued(p)
           \/ drained /\ q = "manual" /\ (Queued(p) \/ (saved /\ p = "regular"))
  BY FlushEndsQueue
<1>3. /\ flush' = None /\ ~RegularFlushing'
      /\ manual' = IF drained THEN [manual EXCEPT !.step = "queued"] ELSE manual
      /\ regular' = IF RegularFlushing /\ ~ok THEN None ELSE regular
  BY DEF FlushEnds, RegularFlushing
<1>4. /\ manual' \in ManualSaves \cup {None}
      /\ manual' = None <=> manual = None
      /\ manual # None => /\ manual'.text = manual.text
                          /\ manual'.step = IF drained THEN "queued" ELSE manual.step
  BY <1>3, NoValues DEF TypeOK, ManualSaves
<1>5. /\ pub' \in Publications \cup {None}
      /\ pub' = None <=> pub = None
      /\ pub # None =>
           /\ pub'.step = pub.step /\ pub'.purpose = pub.purpose
           /\ pub'.text = pub.text /\ pub'.base = pub.base
           /\ pub'.image = pub.image /\ pub'.preserve = pub.preserve
      /\ \/ session' = session /\ mode' = mode /\ timer' = timer
         \/ /\ mode' = "closed" /\ session' = NoSession /\ timer' = FALSE
            /\ session' \in Session /\ session'.base = 0 /\ session'.opened = 0
            /\ session'.working = 0
            /\ session'.recovery = None /\ session'.record = None
            /\ session'.pending = FALSE
      /\ journalSaved' \in BOOLEAN
  <2>1. CASE flush.owner = "lock"
    <3>1. EndSession /\ journalSaved' = ok
      BY <2>1 DEF FlushEnds
    <3>. QED BY <3>1, SessionEnded
  <2>2. CASE flush.owner # "lock"
    BY <2>2 DEF FlushEnds, TypeOK
  <2>. QED BY <2>1, <2>2
<1>. HIDE DEF saved, drained
<1>6. mode # "viewing" /\ mode' # "viewing"
  BY <1>5 DEF Modes
<1>7. /\ \A p : Publishes(p)' <=> Publishes(p)
      /\ Unreplaced' <=> Unreplaced
  BY <1>5 DEF Publishes, Unreplaced
<1>8. /\ ManualWaits' <=> ManualWaits
      /\ RegularWaits' <=> RegularWaits /\ ~(RegularFlushing /\ ~ok)
  BY <1>3, <1>4, <1>7 DEF ManualWaits, RegularWaits, Publishes, drained
<1>9. TypeOK'
  <2>1. /\ mode' \in {"closed", "viewing", "editing", "locking", "flushing"}
        /\ session' \in Session /\ timer' \in BOOLEAN
    BY <1>5 DEF TypeOK
  <2>2. regular' \in Texts \cup {None} /\ flush' \in Flushes \cup {None}
    BY <1>3 DEF TypeOK
  <2>. QED BY <1>2, <1>4, <1>5, <2>1, <2>2, Zenon DEF TypeOK
<1>10. Lines'
  BY <1>2, <1>3, <1>7, <1>8 DEF Lines, saved, drained, ManualWaits, RegularWaits
<1>11. Modes'
  BY <1>5, <1>6, <1>7 DEF Modes, Publishes
<1>12. Budget'
  BY <1>1, <1>5, <1>7, <1>8, NothingMoreOwed
     DEF ManualOwes, RegularOwes, RetainedOwes, Retained
<1>13. Publication' /\ Retention'
  BY <1>5 DEF Publication, Unreplaced, Succeeds, Retention, Retained, Replayable
<1>14. Journal'
  BY <1>5 DEF Journal, Replayable, Succeeds
<1>15. Bases'
  BY <1>1, <1>3, <1>5 DEF Bases, Fields
<1>16. Recovered'
  BY <1>5, <1>6 DEF Recovered, RecoveryIsCurrent, Live
<1>17. Working'
  BY <1>3, <1>4, <1>5 DEF Working, Live, Retained
<1>18. Order'
  <2>. SUFFICES ASSUME Live' PROVE Order'
    BY DEF Order
  <2>1. Live /\ session' = session
    BY <1>5 DEF Live
  <2>2. \A text : Ahead(text)' <=> Ahead(text)
    BY <1>5, <2>1 DEF Ahead, Retained
  <2>3. /\ ManualWaits' => Ahead(manual.text)'
        /\ RegularWaits' => Ahead(regular)'
    BY <1>3, <1>4, <1>8, <2>1, <2>2 DEF Order, ManualWaits
  <2>4. /\ Before("manual", "regular")' => regular' >= manual'.text
        /\ Before("regular", "manual")' => manual'.text >= regular'
    <3>1. Before("manual", "regular") \/ Before("regular", "manual")
            => Queued("manual") /\ Queued("regular")
      BY DEF Before, InOrder, Queued, Waits
    <3>2. /\ Queued("manual") => manual # None
          /\ Queued("regular") => RegularWaits /\ regular' = regular
          /\ RegularFlushing => RegularWaits
      BY <1>3 DEF Lines, ManualWaits
    <3>3. saved => regular' = regular
      BY <1>3 DEF saved
    <3>. QED BY <1>2, <1>4, <2>1, <3>1, <3>2, <3>3 DEF Order, saved, drained
  <2>5. ~(manual' # None /\ manual'.step = "drain")
    BY <1>4 DEF drained
  <2>. QED BY <1>3, <2>3, <2>4, <2>5 DEF Order
<1>19. Typed'
  <2>1. journal' # None => RecordTyped(journal)'
    BY DEF Typed, RecordTyped
  <2>2. /\ session'.opened <= newest
        /\ session'.working # Undefined => session'.working <= newest
        /\ session'.recovery # None =>
             /\ session'.recovery.offered <= newest
             /\ session'.recovery.text # Undefined => session'.recovery.text <= newest
        /\ session'.record # None => RecordTyped(session.record)'
    BY <1>1, <1>5 DEF Typed, RecordTyped, Fields
  <2>3. /\ manual' # None => manual'.text <= newest
        /\ regular' # None => regular' <= newest
        /\ pub' # None => pub'.text <= newest /\ pub'.image.text <= newest
    BY <1>3, <1>4, <1>5 DEF Typed
  <2>. QED BY <1>3, <2>1, <2>2, <2>3 DEF Typed
<1>. QED BY <1>9, <1>10, <1>11, <1>12, <1>13, <1>14, <1>15, <1>16, <1>17, <1>18,
            <1>19

(* A failed publication is pending once its record was journaled. *)
LEMMA Pended ==
  ASSUME TypeOK, pub # None, pub.purpose \in Purposes,
         Pend(pub.step # "preparing")
  PROVE  /\ session' \in Session
         /\ session'.working = session.working /\ session'.opened = session.opened
         /\ session'.base = session.base /\ session'.recovery = session.recovery
         /\ \/ session'.record = session.record
            \/ /\ pub.step # "preparing" /\ pub.purpose \in {"manual", "regular"}
               /\ session'.record = journal
               /\ journal # None /\ journal.pub # None => session'.pending
         /\ pub.purpose = "acquire" =>
              session'.dirty = session.dirty /\ session'.record = session.record
         /\ session'.dirty = session.dirty \/ session'.pending
<1>1. session \in Session /\ journal \in Records \cup {None}
  BY DEF TypeOK
<1>2. CASE pub.step = "preparing"
  BY <1>1, <1>2 DEF Pend
<1>3. CASE pub.step # "preparing" /\ pub.purpose \in {"acquire", "refresh"}
  <2>1. session' = [session EXCEPT !.pending = TRUE]
    BY <1>3 DEF Pend
  <2>. QED BY <1>1, <1>3, <2>1 DEF Session
<1>4. CASE pub.step # "preparing" /\ pub.purpose = "manual"
  <2>1. \/ session' = [session EXCEPT !.pending = TRUE]
        \/ session' = [session EXCEPT !.pending = TRUE, !.record = journal,
                                      !.dirty = session.working # pub.text]
    BY <1>4 DEF Pend
  <2>. QED BY <1>1, <1>4, <2>1 DEF Session
<1>5. CASE pub.step # "preparing" /\ pub.purpose = "regular"
  <2>1. \/ session' = session
        \/ session' = [session EXCEPT !.record = journal,
                         !.pending = journal # None /\ journal.pub # None]
    BY <1>5 DEF Pend
  <2>. QED BY <1>1, <1>5, <2>1 DEF Session
<1>. QED BY <1>1, <1>2, <1>3, <1>4, <1>5 DEF Purposes

-----------------------------------------------------------------------------
(* Opening and entering edit mode *)

(* Opening: the journal cannot be read, so the container opens as it is, to *)
(* view, with nothing to recover.                                           *)
LEMMA OpenUnreadableKeeps ==
  ASSUME IInv, Open, ~Readable
  PROVE  IInv'
<1>. USE DEF IInv, Open, chains, saves, bounds, Quiet
<1>1. Fields
  BY FieldsAreTyped
<1>2. UNCHANGED <<target, journal>> /\ OpenedAs(target, None)
  BY DEF Interrupted
<1>3. None \in Offers \cup {None}
  OBVIOUS
<1>4. /\ session' \in Session
      /\ session'.working = target.text /\ session'.opened = target.text
      /\ session'.base = target.rev /\ session'.recovery = None
      /\ session'.dirty = FALSE /\ session'.pending = FALSE
      /\ session'.record = None
  BY <1>2, <1>3, SessionOpened DEF TypeOK
<1>5. mode' = "viewing" /\ pub = None /\ ~Live'
  BY DEF Live
<1>6. TypeOK'
  BY <1>2, <1>4, Zenon DEF TypeOK
<1>7. Lines' /\ Publication' /\ Journal'
  BY <1>2, Unaffected
<1>8. Modes'
  BY <1>2, <1>4 DEF Modes, Publishes
<1>9. Budget'
  BY <1>1, <1>4, NothingMoreOwed
     DEF ManualOwes, RegularOwes, RetainedOwes, Retained, Publishes,
         ManualWaits, RegularWaits
<1>10. Retention'
  BY <1>4 DEF Retention, Retained
<1>11. Bases'
  BY <1>1, <1>2, <1>4 DEF Fields, Bases
<1>12. Recovered'
  BY <1>2, <1>3, <1>4, <1>5 DEF Recovered, RecoveryIsCurrent
<1>13. Working' /\ Order'
  BY <1>5 DEF Working, Order
<1>14. Typed'
  BY <1>2, <1>3, <1>4, <1>5 DEF Typed, RecordTyped
<1>. QED BY <1>6, <1>7, <1>8, <1>9, <1>10, <1>11, <1>12, <1>13, <1>14

(* Opening completes the publication that the journal says was interrupted, *)
(* and offers the work it preserved.                                        *)
LEMMA OpenInterruptedKeeps ==
  ASSUME IInv, Open, Readable, Interrupted
  PROVE  IInv'
<1>. USE DEF IInv, Open, chains, saves, bounds, Quiet
<1>1. Fields
  BY FieldsAreTyped
<1>2. /\ journal # None /\ journal.pub # None
      /\ target' = journal.pub.image /\ journal' = Leftover(journal)
      /\ OpenedAs(target', AfterPublication(target', journal'))
  BY DEF Interrupted, Readable
<1>3. journal \in Records /\ journal.pub \in Journaled /\ target' \in Images
  BY <1>2 DEF TypeOK, Records, Journaled
<1>4. /\ journal' \in Records \cup {None}
      /\ journal' # None =>
           /\ journal'.pub = None /\ journal'.text = journal.text
           /\ journal'.base = journal.base /\ journal.pub.preserve
  BY <1>2, <1>3, NoValues DEF Leftover, Records
<1>5. target' = target \/ Succeeds(target')
  BY <1>2 DEF Journal, Replayable
<1>6. /\ target'.text \in Texts /\ target'.rev \in Revisions
      /\ target'.text \in Nat /\ target'.rev \in Nat /\ target'.text <= newest
  BY <1>2, <1>3 DEF Images, Texts, Revisions, Typed, RecordTyped
<1>7. /\ AfterPublication(target', journal') \in Offers \cup {None}
      /\ AfterPublication(target', journal') # None =>
           /\ AfterPublication(target', journal').offered >= target'.text
           /\ AfterPublication(target', journal').offered <= newest
           /\ AfterPublication(target', journal').text = Undefined
  <2>1. CASE journal' # None
    <3>1. /\ journal'.text \in Texts /\ journal'.text >= target'.text
          /\ journal'.text <= newest
      BY <1>2, <1>4, <2>1 DEF Records, Journal, Replayable, Typed, RecordTyped
    <3>. QED BY <2>1, <3>1 DEF AfterPublication, Offers
  <2>2. CASE journal' = None
    BY <1>6, <2>2 DEF AfterPublication, Offers
  <2>. QED BY <2>1, <2>2
<1>8. /\ session' \in Session
      /\ session'.working = target'.text /\ session'.opened = target'.text
      /\ session'.base = target'.rev
      /\ session'.recovery = AfterPublication(target', journal')
      /\ session'.dirty = FALSE /\ session'.pending = FALSE
      /\ session'.record = None
  BY <1>2, <1>3, <1>7, SessionOpened
<1>9. mode' = "viewing" /\ pub = None /\ ~Live'
  BY DEF Live
<1>10. TypeOK'
  BY <1>3, <1>4, <1>8, Zenon DEF TypeOK
<1>11. Lines'
  BY Unaffected
<1>12. Modes'
  BY <1>8 DEF Modes, Publishes
<1>13. Budget'
  <2>1. Owed' = 0
    BY <1>8
       DEF Owed, ManualOwes, RegularOwes, RetainedOwes, Retained, Publishes,
           ManualWaits, RegularWaits
  <2>. QED BY <1>6, <2>1, BoundsAreNaturals DEF Budget, Revisions
<1>14. Publication'
  BY <1>9 DEF Publication
<1>15. Journal'
  BY <1>2, <1>4, <1>9 DEF Journal, Replayable
<1>16. Retention'
  BY <1>8 DEF Retention, Retained
<1>17. Bases'
  <2>1. journal.base \in Nat /\ journal.base <= target.rev
    BY <1>1, <1>2 DEF Fields, Bases
  <2>2. journal.base <= target'.rev
    BY <1>1, <1>5, <1>6, <2>1, BasesStayBehind
  <2>. QED BY <1>4, <1>6, <1>8, <1>9, <2>2 DEF Bases
<1>18. Recovered'
  BY <1>7, <1>8, <1>9 DEF Recovered, RecoveryIsCurrent
<1>19. Working' /\ Order'
  BY <1>9 DEF Working, Order
<1>20. Typed'
  BY <1>2, <1>4, <1>7, <1>8 DEF Typed, RecordTyped
<1>. QED BY <1>10, <1>11, <1>12, <1>13, <1>14, <1>15, <1>16, <1>17, <1>18,
            <1>19,
     <1>20

(* Opening offers the journal's work to recover, if it has any. *)
LEMMA OpenPlainKeeps ==
  ASSUME IInv, Open, Readable, ~Interrupted
  PROVE  IInv'
<1>. USE DEF IInv, Open, chains, saves, bounds, Quiet
<1>1. Fields
  BY FieldsAreTyped
<1>2. UNCHANGED <<target, journal>> /\ OpenedAs(target, AfterCrash)
  BY DEF Interrupted
<1>3. /\ AfterCrash \in Offers \cup {None}
      /\ AfterCrash # None =>
           /\ AfterCrash.offered >= target.text /\ AfterCrash.offered <= newest
           /\ AfterCrash.text = AfterCrash.offered
  <2>1. CASE journal # None /\ journal.base = target.rev
    <3>1. journal.pub = None /\ journal.text \in Texts
      BY <2>1 DEF Interrupted, TypeOK, Records
    <3>2. journal.text >= target.text /\ journal.text <= newest
      BY <2>1, <3>1 DEF Journal, Typed, RecordTyped
    <3>. QED BY <2>1, <3>1, <3>2 DEF AfterCrash, Offers
  <2>2. CASE ~(journal # None /\ journal.base = target.rev) /\ ~target.sealed
    <3>1. target.text \in Texts /\ target.text >= target.text /\ target.text <= newest
      BY <1>1 DEF Fields, TypeOK, Images, Typed
    <3>. QED BY <2>2, <3>1 DEF AfterCrash, Offers
  <2>3. CASE ~(journal # None /\ journal.base = target.rev) /\ target.sealed
    BY <2>3 DEF AfterCrash
  <2>. QED BY <2>1, <2>2, <2>3
<1>4. /\ session' \in Session
      /\ session'.working = target.text /\ session'.opened = target.text
      /\ session'.base = target.rev /\ session'.recovery = AfterCrash
      /\ session'.dirty = FALSE /\ session'.pending = FALSE
      /\ session'.record = None
  BY <1>2, <1>3, SessionOpened DEF TypeOK
<1>5. mode' = "viewing" /\ pub = None /\ ~Live'
  BY DEF Live
<1>6. TypeOK'
  BY <1>2, <1>4, Zenon DEF TypeOK
<1>7. Lines' /\ Publication' /\ Journal'
  BY <1>2, Unaffected
<1>8. Modes'
  BY <1>2, <1>4 DEF Modes, Publishes
<1>9. Budget'
  BY <1>1, <1>4, NothingMoreOwed
     DEF ManualOwes, RegularOwes, RetainedOwes, Retained, Publishes,
         ManualWaits, RegularWaits
<1>10. Retention'
  BY <1>4 DEF Retention, Retained
<1>11. Bases'
  BY <1>1, <1>2, <1>4 DEF Fields, Bases
<1>12. Recovered'
  BY <1>2, <1>3, <1>4, <1>5 DEF Recovered, RecoveryIsCurrent
<1>13. Working' /\ Order'
  BY <1>5 DEF Working, Order
<1>14. Typed'
  BY <1>2, <1>3, <1>4, <1>5 DEF Typed, RecordTyped
<1>. QED BY <1>6, <1>7, <1>8, <1>9, <1>10, <1>11, <1>12, <1>13, <1>14

(* Entering edit mode starts a lease publication. *)
LEMMA AcquireKeeps ==
  ASSUME IInv, Acquire
  PROVE  IInv'
<1>. USE DEF IInv, Acquire, saves, bounds
<1>1. Fields
  BY FieldsAreTyped
<1> DEFINE text == IF LeaseWork \in Texts THEN LeaseWork ELSE session.opened
<1>4. /\ pub' \in Publications /\ pub' # None
      /\ pub'.step = "preparing" /\ pub'.purpose = "acquire"
      /\ pub'.text = text /\ pub'.base = session.base
      /\ pub'.preserve = (LeaseWork # None) /\ pub'.image = target
  <2>1. StartLease("acquire") /\ "acquire" \in Purposes
    BY DEF Purposes
  <2>. QED BY <2>1, LeaseStarted
<1>5. text <= newest /\ (LeaseWork # None => text >= target.text)
  BY LeaseTextIsCurrent
<1>. HIDE DEF text
<1>6. TypeOK'
  BY <1>4, Zenon DEF TypeOK
<1>7. Recovered'
  BY DEF Recovered, RecoveryIsCurrent, Live
<1>8. Lines'
  BY <1>4
     DEF Lines, Publishes, ManualWaits, RegularWaits, RegularFlushing, Queued
<1>9. Modes'
  BY <1>4 DEF Modes, Publishes
<1>10. Budget'
  BY <1>1, <1>4, NothingMoreOwed
     DEF ManualOwes, RegularOwes, RetainedOwes, Retained, Publishes,
         ManualWaits, RegularWaits
<1>11. Publication'
  BY <1>4, <1>5 DEF Publication, Unreplaced
<1>12. Journal'
  BY <1>4 DEF Journal, Replayable, Succeeds
<1>13. Retention'
  BY DEF Retention, Retained, Replayable, Succeeds
<1>14. Bases'
  BY <1>4 DEF Bases
<1>15. Working'
  BY <1>4 DEF Working, Live, Retained
<1>16. Order'
  BY DEF Order, Live
<1>17. Typed'
  BY <1>4, <1>5 DEF Typed, RecordTyped
<1>. QED BY <1>6, <1>7, <1>8, <1>9, <1>10, <1>11, <1>12, <1>13, <1>14, <1>15,
     <1>16, <1>17

(* The user discards the work offered. *)
LEMMA DiscardWorkKeeps ==
  ASSUME IInv, DiscardWork
  PROVE  IInv'
<1>. USE DEF IInv, DiscardWork, chains, saves, bounds
<1>1. Fields
  BY FieldsAreTyped
<1>2. /\ session'.recovery = None
      /\ session'.working = session.working /\ session'.dirty = session.dirty
      /\ session'.opened = session.opened /\ session'.base = session.base
      /\ session'.pending = session.pending /\ session'.record = session.record
  BY DEF TypeOK, DiscardWork, Session
<1>3. session' \in Session
  BY BoundsAreNaturals DEF TypeOK, Session
<1>4. TypeOK'
  BY <1>3, Zenon DEF TypeOK
<1>5. Lines' /\ Publication'
  BY Unaffected
<1>6. Modes'
  BY <1>2 DEF Modes, Publishes
<1>7. Budget'
  BY <1>1, NothingMoreOwed
     DEF ManualOwes, RegularOwes, RetainedOwes, Retained, Publishes,
         ManualWaits, RegularWaits
<1>8. Journal'
  BY <1>2 DEF Journal, Replayable, Succeeds
<1>9. Retention'
  BY <1>2 DEF Retention, Retained, Replayable, Succeeds
<1>10. Bases'
  BY <1>2 DEF Bases
<1>11. Recovered'
  BY <1>2 DEF Recovered, RecoveryIsCurrent, Live
<1>12. Working'
  BY <1>2 DEF Working, Live, Retained
<1>13. Order'
  BY DEF Order, Live
<1>14. Typed'
  BY <1>2 DEF Typed, RecordTyped
<1>. QED BY <1>4, <1>5, <1>6, <1>7, <1>8, <1>9, <1>10, <1>11, <1>12, <1>13,
     <1>14

(* Closing while viewing leaves no session. *)
LEMMA CloseKeeps ==
  ASSUME IInv, Close
  PROVE  IInv'
<1>. USE DEF IInv, Close, chains, saves, bounds, NoSession
<1>1. Fields
  BY FieldsAreTyped
<1>2. session' \in Session
  BY BoundsAreNaturals DEF Session, Texts, Revisions, Keys
<1>3. TypeOK'
  BY <1>2, Zenon DEF TypeOK
<1>4. Lines' /\ Publication' /\ Journal'
  BY Unaffected
<1>5. Modes'
  BY DEF Modes, Publishes
<1>6. Budget'
  BY <1>1, NothingMoreOwed
     DEF ManualOwes, RegularOwes, RetainedOwes, Retained, Publishes,
         ManualWaits, RegularWaits
<1>7. Retention'
  BY DEF Retention, Retained, Replayable, Succeeds
<1>8. Bases'
  BY <1>1, NoValues, BoundsAreNaturals DEF Bases, Fields
<1>9. Recovered'
  BY DEF Recovered, RecoveryIsCurrent, Live
<1>10. Working'
  BY DEF Working, Live, Retained
<1>11. Order'
  BY DEF Order, Live
<1>12. Typed'
  BY <1>1, NoValues, BoundsAreNaturals DEF Typed, RecordTyped, Fields
<1>. QED BY <1>3, <1>4, <1>5, <1>6, <1>7, <1>8, <1>9, <1>10, <1>11, <1>12

-----------------------------------------------------------------------------
(* Editing and checkpoints *)

(* Typing makes the working text the newest there is. *)
LEMMA EditKeeps ==
  ASSUME IInv, Edit
  PROVE  IInv'
<1>. USE DEF IInv, Edit, saves, bounds
<1>1. Fields
  BY FieldsAreTyped
<1>2. /\ session'.working = newest + 1 /\ session'.dirty = TRUE
      /\ session'.opened = session.opened /\ session'.base = session.base
      /\ session'.recovery = session.recovery
      /\ session'.pending = session.pending /\ session'.record = session.record
  BY DEF TypeOK, Edit, Session
<1>3. session' \in Session /\ newest' \in Texts
  <2>1. newest' \in Texts
    BY BoundsAreNaturals DEF TypeOK, Texts
  <2>2. newest + 1 \in Texts
    BY <2>1
  <2>. QED BY <2>1, <2>2 DEF TypeOK, Session
<1>4. TypeOK'
  BY <1>3, Zenon DEF TypeOK
<1>5. Lines' /\ Publication' /\ Journal'
  BY Unaffected
<1>6. Modes'
  BY <1>2 DEF Modes, Publishes
<1>7. Budget'
  BY <1>1, NothingMoreOwed
     DEF ManualOwes, RegularOwes, RetainedOwes, Retained, Unreplaced,
         Publishes, ManualWaits, RegularWaits
<1>8. Retention'
  BY <1>2 DEF Retention, Retained, Replayable, Succeeds
<1>9. Bases'
  BY <1>2 DEF Bases
<1>10. Recovered'
  BY <1>2 DEF Recovered, RecoveryIsCurrent, Live
<1>11. Working'
  <2>1. \A t \in Nat : t <= newest => newest + 1 >= t
    BY <1>1 DEF Fields
  <2>2. newest + 1 # Undefined
    BY <1>1, NoValues DEF Fields
  <2>. QED BY <1>1, <2>2 DEF Fields, Typed, RecordTyped, Working, Live, Retained
<1>12. Order'
  BY DEF Order, Live, ManualWaits, RegularWaits, RegularFlushing, Publishes,
         Queued, Before, Ahead, Retained
<1>13. Typed'
  <2>1. \A t \in Nat : t <= newest => t <= newest'
    BY <1>1 DEF Fields
  <2>2. (target.text <= newest /\ (journal # None => RecordTyped(journal)))'
    BY <1>1, <2>1 DEF Fields, Typed, RecordTyped
  <2>3. (/\ session.opened <= newest
         /\ session.working # Undefined => session.working <= newest
         /\ session.recovery # None =>
              /\ session.recovery.offered <= newest
              /\ session.recovery.text # Undefined => session.recovery.text <= newest
         /\ session.record # None => RecordTyped(session.record))'
    BY <1>1, <1>2, <2>1 DEF Fields, Typed, RecordTyped
  <2>. QED BY <1>1, <2>1, <2>2, <2>3 DEF Fields, Typed
<1>. QED BY <1>4, <1>5, <1>6, <1>7, <1>8, <1>9, <1>10, <1>11, <1>12, <1>13

(* The checkpoint timer fires and a checkpoint starts. *)
LEMMA CheckpointDueKeeps ==
  ASSUME IInv, CheckpointDue
  PROVE  IInv'
<1>. USE DEF IInv, CheckpointDue, saves, bounds, NeedsCheckpoint
<1>1. Fields
  BY FieldsAreTyped
<1>2. flush' \in Flushes \cup {None}
  BY BoundsAreNaturals DEF TypeOK, Flushes, Owners
<1>3. TypeOK'
  BY <1>2, Zenon DEF TypeOK
<1>4. Budget' /\ Publication' /\ Journal' /\ Retention' /\ Recovered' /\
     Working'
  BY Unaffected
<1>5. Lines'
  BY DEF Lines, Queued, Publishes, ManualWaits, RegularWaits, RegularFlushing
<1>6. Modes'
  BY DEF Modes, Publishes
<1>7. Bases'
  BY DEF Bases
<1>8. Order'
  BY DEF Order, Live, ManualWaits, RegularWaits, RegularFlushing, Publishes,
         Before, Ahead, Retained
<1>9. Typed'
  BY DEF Typed, RecordTyped
<1>. QED BY <1>3, <1>4, <1>5, <1>6, <1>7, <1>8, <1>9

(* The checkpoint takes the working text as it stands now. *)
LEMMA CaptureOpensKeeps ==
  ASSUME IInv, CaptureFlush, flush' # None
  PROVE  IInv'
<1>. USE DEF IInv, CaptureFlush, bounds
<1>1. Fields
  BY FieldsAreTyped
<1>2. /\ Live /\ session.working # Undefined
      /\ flush' = [step |-> "writing", owner |-> flush.owner,
                   text |-> session.working, base |-> session.base,
                   key |-> session.key]
      /\ UNCHANGED <<mode, session, timer, queue, pub, manual, regular, journalSaved>>
  BY DEF FlushEnds
<1>3. flush' \in Flushes
  BY <1>2 DEF TypeOK, Flushes, Owners, Session
<1>4. TypeOK'
  BY <1>2, <1>3, Zenon DEF TypeOK
<1>5. Budget' /\ Publication' /\ Journal' /\ Retention' /\ Recovered' /\ Working'
  BY <1>2, Unaffected
<1>6. Lines'
  BY <1>2
     DEF Lines, Queued, Publishes, ManualWaits, RegularWaits, RegularFlushing
<1>7. Modes'
  BY <1>2 DEF Modes, Publishes, Live
<1>8. Bases'
  BY <1>2 DEF Bases, Working
<1>9. Order'
  BY <1>2
     DEF Order, Ahead, Retained, Queued, Before, Publishes, ManualWaits,
         RegularWaits, RegularFlushing
<1>10. Typed'
  BY <1>2 DEF Typed, RecordTyped
<1>. QED BY <1>4, <1>5, <1>6, <1>7, <1>8, <1>9, <1>10

(* The checkpoint is not written: its prior record cannot be read. *)
LEMMA CaptureEndsKeeps ==
  ASSUME IInv, CaptureFlush, flush' = None
  PROVE  IInv'
<1>1. FlushEnds(FALSE) /\ flush # None
  <2>. DEFINE captured == [step |-> "writing", owner |-> flush.owner,
                           text |-> session.working, base |-> session.base,
                           key |-> session.key]
  <2>1. ASSUME session.working # Undefined, flush # None PROVE captured \in Flushes
    BY <2>1 DEF IInv, TypeOK, Session, Flushes
  <2>. QED BY <2>1, NoValues DEF CaptureFlush
<1>2. /\ target' = target /\ late' = late /\ newest' = newest
      /\ refreshes' = refreshes /\ faults' \in 0..MaxFaults
      /\ journal' = journal /\ journal' \in Records \cup {None}
  BY DEF CaptureFlush, bounds, IInv, TypeOK
<1>. QED BY <1>1, <1>2, FlushEndsKeeps

(* The checkpoint is on disk. *)
LEMMA LandFlushKeeps ==
  ASSUME IInv, LandFlush
  PROVE  IInv'
<1>1. FlushEnds(TRUE) /\ flush # None
  BY DEF LandFlush
<1>2. /\ target' = target /\ late' = late /\ newest' = newest
      /\ refreshes' = refreshes /\ faults' \in 0..MaxFaults
  BY DEF LandFlush, bounds, IInv, TypeOK
<1>3. /\ journal' = [text |-> flush.text, base |-> flush.base, key |-> flush.key,
                     pub |-> None]
      /\ flush.text \in Texts /\ flush.base \in Revisions /\ flush.key \in Keys
  BY DEF LandFlush, Work, IInv, TypeOK, Flushes
<1>4. journal' \in Records
  BY <1>3 DEF Records
<1>5. /\ journal' # None /\ journal'.pub = None
      /\ journal'.base <= target.rev
      /\ journal'.base = target.rev => journal'.text >= target.text
      /\ journal'.text <= newest
  BY <1>3, <1>4, NoValues DEF LandFlush, IInv, Bases, Typed
<1>. QED BY <1>1, <1>2, <1>4, <1>5, FlushEndsKeeps

-----------------------------------------------------------------------------
(* Saves and lease refreshes queue in publicationChain *)

(* A manual save with no checkpoint to wait for queues at once. *)
LEMMA SubmitManualQueuesKeeps ==
  ASSUME IInv, SubmitManual, flush = None
  PROVE  IInv'
<1>. USE DEF IInv, SubmitManual, saves, bounds
<1>1. Fields
  BY FieldsAreTyped
<1>2. /\ queue' \in Seq(Waiting) /\ Distinct(queue') /\ Len(queue') <= 3
      /\ queue' # <<>>
      /\ \A p : Queued(p)' <=> Queued(p) \/ p = "manual"
      /\ \A p, q : Before(p, q)' => Before(p, q) \/ (Queued(p) /\ q = "manual")
  <2>1. queue \in Seq(Waiting) /\ Distinct(queue) /\ "manual" \in Waiting
    BY DEF TypeOK, Lines, Waiting, Purposes
  <2>2. ~Queued("manual") /\ queue' = Append(queue, "manual")
    BY DEF Lines, ManualWaits
  <2>. QED BY <2>1, <2>2, Enqueued
<1>3. manual' \in ManualSaves /\ manual' # None /\ manual'.text = session.working
      /\ manual'.step = "queued"
  <2>1. manual' \in ManualSaves
    BY DEF TypeOK, ManualSaves, Session
  <2>. QED BY <2>1, NoValues
<1>4. TypeOK'
  BY <1>2, <1>3, Zenon DEF TypeOK
<1>5. Publication' /\ Journal' /\ Retention' /\ Bases' /\ Recovered'
  BY Unaffected
<1>6. Lines'
  BY <1>2, <1>3 DEF Lines, Publishes, ManualWaits, RegularWaits, RegularFlushing
<1>7. Modes'
  BY <1>2, <1>3 DEF Modes, Publishes
<1>8. Budget'
  <2>1. ~ManualOwes /\ ~RetainedOwes /\ ~RetainedOwes'
    BY DEF ManualOwes, RetainedOwes, Retained, Retention, Lines, ManualWaits
  <2>2. RegularOwes' => regular # None
    BY DEF RegularOwes, Lines, Publishes, RegularWaits
  <2>3. Owed' \in Nat /\ Owed' <= Saving + 1
    BY <2>1, <2>2 DEF Owed, Saving
  <2>. QED BY <1>1, <2>3, BoundsAreNaturals DEF Fields, Budget, Saving
<1>9. Working'
  BY <1>1, <1>3 DEF Fields, Working, Live, Retained
<1>10. Order'
  <2>1. Live /\ Live' /\ session.working \in Nat /\ session.working # Undefined
    BY <1>1 DEF Live, Fields
  <2>2. (ManualWaits => Ahead(manual.text))'
    BY <1>3, <2>1 DEF Working, Ahead, Retained
  <2>3. (RegularWaits => Ahead(regular))'
    BY <2>1 DEF Order, Ahead, Retained, RegularWaits, Publishes
  <2>4. regular # None => manual'.text >= regular
    BY <1>3, <2>1 DEF Working
  <2>. QED BY <2>2, <2>3, <2>4
              DEF Order, Lines, ManualWaits, RegularWaits, RegularFlushing,
                  Before, InOrder, Queued, Waits
<1>11. Typed'
  BY <1>1, <1>3 DEF Typed, RecordTyped
<1>. QED BY <1>4, <1>5, <1>6, <1>7, <1>8, <1>9, <1>10, <1>11

(* A manual save waits for the checkpoint that is under way. *)
LEMMA SubmitManualDrainsKeeps ==
  ASSUME IInv, SubmitManual, flush # None
  PROVE  IInv'
<1>. USE DEF IInv, SubmitManual, saves, bounds
<1>1. Fields
  BY FieldsAreTyped
<1>2. queue' = queue
  OBVIOUS
<1>3. manual' \in ManualSaves /\ manual' # None /\ manual'.text = session.working
      /\ manual'.step = "drain"
  <2>1. manual' \in ManualSaves
    BY DEF TypeOK, ManualSaves, Session
  <2>. QED BY <2>1, NoValues
<1>4. TypeOK'
  BY <1>2, <1>3, Zenon DEF TypeOK
<1>5. Publication' /\ Journal' /\ Retention' /\ Bases' /\ Recovered'
  BY Unaffected
<1>6. Lines'
  BY DEF Lines, Publishes, ManualWaits, RegularWaits, RegularFlushing, Queued
<1>7. Modes'
  BY <1>2, <1>3 DEF Modes, Publishes
<1>8. Budget'
  <2>1. ~ManualOwes /\ ~RetainedOwes /\ ~RetainedOwes'
    BY DEF ManualOwes, RetainedOwes, Retained, Retention, Lines, ManualWaits
  <2>2. RegularOwes' => regular # None
    BY DEF RegularOwes, Lines, Publishes, RegularWaits
  <2>3. Owed' \in Nat /\ Owed' <= Saving + 1
    BY <2>1, <2>2 DEF Owed, Saving
  <2>. QED BY <1>1, <2>3, BoundsAreNaturals DEF Fields, Budget, Saving
<1>9. Working'
  BY <1>1, <1>3 DEF Fields, Working, Live, Retained
<1>10. Order'
  <2>1. Live /\ Live' /\ session.working \in Nat /\ session.working # Undefined
    BY <1>1 DEF Live, Fields
  <2>2. (ManualWaits => Ahead(manual.text))'
    BY <1>3, <2>1 DEF Working, Ahead, Retained
  <2>3. (RegularWaits => Ahead(regular))'
    BY <2>1 DEF Order, Ahead, Retained, RegularWaits, Publishes
  <2>4. regular # None => manual'.text >= regular
    BY <1>3, <2>1 DEF Working
  <2>. QED BY <2>2, <2>3, <2>4
              DEF Order, Lines, ManualWaits, RegularWaits, Before, InOrder,
                  Queued, Waits
<1>11. Typed'
  BY <1>1, <1>3 DEF Typed, RecordTyped
<1>. QED BY <1>4, <1>5, <1>6, <1>7, <1>8, <1>9, <1>10, <1>11

(* The regular save's timer fires: it first writes a checkpoint. *)
LEMMA RegularDueKeeps ==
  ASSUME IInv, RegularDue
  PROVE  IInv'
<1>. USE DEF IInv, RegularDue, saves, bounds, NeedsCheckpoint, Saving
<1>1. Fields
  BY FieldsAreTyped
<1>2. flush' \in Flushes /\ regular' \in Texts
  BY BoundsAreNaturals DEF TypeOK, Flushes, Owners, Session
<1>3. TypeOK'
  BY <1>2, Zenon DEF TypeOK
<1>4. Publication' /\ Journal' /\ Retention' /\ Recovered'
  BY Unaffected
<1>5. Lines'
  <2>1. ~Queued("regular") /\ ~Publishes("regular")
    BY DEF Lines, RegularWaits
  <2>2. flush' # None /\ flush'.owner = "regular" /\ regular' # None
    BY <1>2, NoValues, BoundsAreNaturals DEF Texts
  <2>3. (/\ Distinct(queue)
         /\ Queued("manual") => ManualWaits /\ manual.step = "queued"
         /\ ManualWaits => Queued("manual") \/ manual.step = "drain"
         /\ Publishes("manual") => manual # None /\ manual.step = "queued")'
    BY DEF Lines, Queued, Publishes, ManualWaits
  <2>. QED BY <2>2, <2>3
              DEF Lines, Queued, Publishes, RegularWaits, RegularFlushing
<1>6. Modes'
  BY DEF Modes, Publishes
<1>7. Budget'
  <2>1. ~RegularOwes /\ ~RetainedOwes /\ ~RetainedOwes'
    BY DEF RegularOwes, RetainedOwes, Retained, Retention, Lines, RegularWaits
  <2>2. ManualOwes' => manual # None
    BY DEF ManualOwes, Lines, Publishes, ManualWaits
  <2>3. Owed' \in Nat /\ Owed' <= Saving + 1
    BY <2>1, <2>2 DEF Owed, Saving
  <2>. QED BY <1>1, <2>3, BoundsAreNaturals DEF Fields, Budget, Saving
<1>8. Bases'
  BY DEF Bases
<1>9. Working'
  BY <1>1, NoValues, BoundsAreNaturals DEF Working, Live, Retained, Fields
<1>10. Order'
  <2>1. Live /\ Live' /\ session.working \in Nat /\ session.working # Undefined
    BY <1>1 DEF Live, Fields
  <2>2. (RegularWaits => Ahead(regular))'
    BY <2>1 DEF Working, Ahead, Retained
  <2>3. (ManualWaits => Ahead(manual.text))'
    BY <2>1 DEF Order, Ahead, Retained, ManualWaits, Publishes
  <2>4. manual # None => regular' >= manual.text /\ manual.step # "drain"
    BY <2>1 DEF Working, Lines
  <2>5. ~Queued("regular") /\ (Before("regular", "manual") => Queued("regular"))
    BY DEF Lines, RegularWaits, Before, InOrder, Queued, Waits
  <2>. QED BY <2>2, <2>3, <2>4
              DEF Order, Lines, ManualWaits, RegularWaits, Before, InOrder,
                  Queued, Waits
<1>11. Typed'
  BY DEF Typed, RecordTyped
<1>. QED BY <1>3, <1>4, <1>5, <1>6, <1>7, <1>8, <1>9, <1>10, <1>11

(* The lease timer fires: a refresh queues. *)
LEMMA RefreshDueKeeps ==
  ASSUME IInv, RefreshDue
  PROVE  IInv'
<1>. USE DEF IInv, RefreshDue, saves, bounds
<1>1. Fields
  BY FieldsAreTyped
<1>2. /\ queue' \in Seq(Waiting) /\ Distinct(queue') /\ Len(queue') <= 3
      /\ queue' # <<>>
      /\ \A p : Queued(p)' <=> Queued(p) \/ p = "refresh"
      /\ \A p, q : Before(p, q)' => Before(p, q) \/ (Queued(p) /\ q = "refresh")
  <2>1. queue \in Seq(Waiting) /\ Distinct(queue) /\ "refresh" \in Waiting
    BY DEF TypeOK, Lines, Waiting, Purposes
  <2>2. ~Queued("refresh") /\ queue' = Append(queue, "refresh")
    BY DEF Queued, Waits
  <2>. QED BY <2>1, <2>2, Enqueued
<1>4. refreshes' \in 0..MaxRefreshes
  BY BoundsAreNaturals DEF TypeOK, saves
<1>5. TypeOK'
  BY <1>2, <1>4, Zenon DEF TypeOK
<1>6. Publication' /\ Journal' /\ Retention' /\ Bases' /\
     Recovered' /\ Working' /\ Typed'
  BY Unaffected
<1>10. Budget'
  BY <1>1, NothingMoreOwed
     DEF ManualOwes, RegularOwes, RetainedOwes, Retained, Unreplaced,
         Publishes, ManualWaits, RegularWaits
<1>7. Lines'
  BY <1>2 DEF Lines, Publishes, ManualWaits, RegularWaits, RegularFlushing
<1>8. Modes'
  BY <1>2 DEF Modes, Publishes
<1>9. Order'
  BY <1>2
     DEF Order, Live, Ahead, Retained, Publishes, ManualWaits, RegularWaits,
         RegularFlushing
<1>. QED BY <1>10, <1>5, <1>6, <1>7, <1>8, <1>9

(* A refresh's turn comes and its publication starts. *)
LEMMA BeginRefreshStartsKeeps ==
  ASSUME IInv, BeginRefresh, Available
  PROVE  IInv'
<1>. USE DEF IInv, BeginRefresh, Available, saves, bounds
<1>1. Fields
  BY FieldsAreTyped
<1>2. /\ queue \in Seq(Waiting) /\ Distinct(queue)
      /\ queue # <<>> /\ queue' = Tail(queue)
  BY DEF TypeOK, Lines
<1>3. /\ queue' \in Seq(Waiting) /\ Distinct(queue') /\ Len(queue') <= 3
      /\ Queued(Head(queue)) /\ Head(queue) \in Waiting
      /\ \A p : Queued(p)' <=> Queued(p) /\ p # Head(queue)
      /\ \A p, q : Before(p, q)' => Before(p, q) /\ Queued(p)' /\ Queued(q)'
      /\ \A p : Queued(p) /\ p # Head(queue) => Before(Head(queue), p)
  BY <1>2, Dequeued
<1> DEFINE text == IF LeaseWork \in Texts THEN LeaseWork ELSE session.opened
<1>4. /\ pub' \in Publications /\ pub' # None
      /\ pub'.step = "preparing" /\ pub'.purpose = "refresh"
      /\ pub'.text = text /\ pub'.base = session.base
      /\ pub'.preserve = (LeaseWork # None) /\ pub'.image = target
  <2>1. StartLease("refresh") /\ "refresh" \in Purposes
    BY DEF Purposes
  <2>. QED BY <2>1, LeaseStarted
<1>5. text <= newest /\ (LeaseWork # None => text >= target.text)
  BY LeaseTextIsCurrent
<1>. HIDE DEF text
<1>6. TypeOK'
  BY <1>3, <1>4, Zenon DEF TypeOK
<1>7. Recovered'
  BY DEF Recovered, RecoveryIsCurrent, Live
<1>8. Lines'
  BY <1>3, <1>4 DEF Lines, Publishes, ManualWaits, RegularWaits, RegularFlushing
<1>9. Modes'
  BY <1>2, <1>4 DEF Modes, Publishes
<1>10. Budget'
  BY <1>1, <1>4, NothingMoreOwed
     DEF ManualOwes, RegularOwes, RetainedOwes, Retained, Publishes,
         ManualWaits, RegularWaits
<1>11. Publication'
  BY <1>4, <1>5 DEF Publication, Unreplaced
<1>12. Journal'
  BY <1>4 DEF Journal, Replayable, Succeeds
<1>13. Retention'
  BY DEF Retention, Retained, Replayable, Succeeds
<1>14. Bases'
  BY <1>4 DEF Bases
<1>15. Working'
  BY <1>4 DEF Working, Live, Retained
<1>16. Order'
  BY <1>3, <1>4
     DEF Order, Live, Ahead, Retained, Publishes, ManualWaits, RegularWaits,
         RegularFlushing
<1>17. Typed'
  BY <1>4, <1>5 DEF Typed, RecordTyped
<1>. QED BY <1>6, <1>7, <1>8, <1>9, <1>10, <1>11, <1>12, <1>13, <1>14, <1>15,
     <1>16, <1>17

(* A refresh's turn comes and the document must lock instead. *)
LEMMA BeginRefreshLocksKeeps ==
  ASSUME IInv, BeginRefresh, ~Available
  PROVE  IInv'
<1>. USE DEF IInv, BeginRefresh, saves, bounds, StartLock, Live
<1>1. Fields
  BY FieldsAreTyped
<1>2. /\ queue \in Seq(Waiting) /\ Distinct(queue)
      /\ queue # <<>> /\ queue' = Tail(queue)
  BY DEF TypeOK, Lines
<1>3. /\ queue' \in Seq(Waiting) /\ Distinct(queue') /\ Len(queue') <= 3
      /\ Queued(Head(queue)) /\ Head(queue) \in Waiting
      /\ \A p : Queued(p)' <=> Queued(p) /\ p # Head(queue)
      /\ \A p, q : Before(p, q)' => Before(p, q) /\ Queued(p)' /\ Queued(q)'
      /\ \A p : Queued(p) /\ p # Head(queue) => Before(Head(queue), p)
  BY <1>2, Dequeued
<1>11. UNCHANGED pub /\ StartLock
  BY DEF BeginRefresh
<1>4. TypeOK'
  BY <1>3, <1>11, Zenon DEF TypeOK
<1>5. Publication' /\ Journal' /\ Retention' /\ Bases' /\ Typed'
  BY Unaffected
<1>12. Budget'
  BY <1>1, NothingMoreOwed
     DEF ManualOwes, RegularOwes, RetainedOwes, Retained, ManualWaits,
         RegularWaits, Publishes
<1>6. Lines'
  BY <1>3 DEF Lines, Publishes, ManualWaits, RegularWaits, RegularFlushing
<1>7. Modes'
  BY DEF Modes, Publishes
<1>8. Recovered'
  BY DEF Recovered, RecoveryIsCurrent, Live
<1>9. Working'
  BY DEF Working, Live, Retained
<1>10. Order'
  BY <1>3
     DEF Order, Ahead, Retained, Publishes, ManualWaits, RegularWaits,
         RegularFlushing
<1>. QED BY <1>12, <1>4, <1>5, <1>6, <1>7, <1>8, <1>9, <1>10

(* A manual save's turn comes: it publishes the successor of the target. *)
LEMMA BeginManualKeeps ==
  ASSUME IInv, BeginManual
  PROVE  IInv'
<1>. USE DEF IInv, BeginManual, Available, saves, bounds
<1>1. Fields
  BY FieldsAreTyped
<1>2. /\ queue \in Seq(Waiting) /\ Distinct(queue)
      /\ queue # <<>> /\ queue' = Tail(queue)
  BY DEF TypeOK, Lines
<1>3. /\ queue' \in Seq(Waiting) /\ Distinct(queue') /\ Len(queue') <= 3
      /\ Queued(Head(queue)) /\ Head(queue) \in Waiting
      /\ \A p : Queued(p)' <=> Queued(p) /\ p # Head(queue)
      /\ \A p, q : Before(p, q)' => Before(p, q) /\ Queued(p)' /\ Queued(q)'
      /\ \A p : Queued(p) /\ p # Head(queue) => Before(Head(queue), p)
  BY <1>2, Dequeued
<1>4. manual # None /\ manual.step = "queued" /\ target.rev + 1 <= MaxRevision
  <2>1. ManualWaits /\ manual.step = "queued"
    BY <1>3 DEF Lines
  <2>2. Owed \in Nat /\ Owed >= 1
    BY <2>1 DEF Owed, ManualOwes
  <2>. QED BY <1>1, <2>1, <2>2, BoundsAreNaturals DEF Fields, Budget, ManualWaits
<1> DEFINE image == [text |-> manual.text, rev |-> target.rev + 1, sealed |-> TRUE]
<1>5. manual.text \in Texts /\ image \in Images
  BY <1>1, <1>4, BoundsAreNaturals
     DEF Fields, TypeOK, ManualSaves, Images, Revisions
<1>6. /\ pub' \in Publications /\ pub' # None
      /\ pub'.step = "preparing" /\ pub'.purpose = "manual"
      /\ pub'.text = manual.text /\ pub'.base = session.base
      /\ pub'.preserve = FALSE /\ pub'.image = image
  <2>1. Start("manual", manual.text, FALSE, image) /\ "manual" \in Purposes
    BY DEF BeginManual, Purposes
  <2>. QED BY <1>5, <2>1, Started
<1>7. image.text = manual.text /\ image.rev = target.rev + 1
  OBVIOUS
<1>. HIDE DEF image
<1>8. TypeOK'
  BY <1>3, <1>6, Zenon DEF TypeOK
<1>9. Recovered'
  BY DEF Recovered, RecoveryIsCurrent, Live
<1>10. Lines'
  BY <1>3, <1>4, <1>6
     DEF Lines, Publishes, ManualWaits, RegularWaits, RegularFlushing
<1>11. Modes'
  BY <1>2, <1>6 DEF Modes, Publishes
<1>12. Budget'
  BY <1>1, <1>3, <1>4, <1>6, NothingMoreOwed DEF ManualOwes, RegularOwes,
       RetainedOwes, Retained, Lines, Publishes, ManualWaits, RegularWaits,
       RegularFlushing
<1>13. Publication'
  BY <1>1, <1>3, <1>4, <1>6, <1>7
     DEF Fields, Publication, Unreplaced, Succeeds, Order, Ahead, Live,
         Lines, Publishes, ManualWaits, RegularWaits, RegularFlushing
<1>14. Journal'
  BY <1>2, <1>6 DEF Journal, Replayable, Succeeds
<1>15. Retention'
  BY DEF Retention, Retained, Replayable, Succeeds
<1>16. Bases'
  BY <1>6 DEF Bases
<1>17. Working'
  BY <1>4, <1>6, <1>7 DEF Working, Live, Retained
<1>18. Order'
  BY <1>3, <1>4, <1>6, <1>7
     DEF Order, Live, Ahead, Retained, Lines, Publishes, ManualWaits,
         RegularWaits, RegularFlushing
<1>19. Typed'
  BY <1>4, <1>6, <1>7 DEF Typed, RecordTyped
<1>. QED BY <1>8, <1>9, <1>10, <1>11, <1>12, <1>13, <1>14, <1>15, <1>16,
     <1>17, <1>18, <1>19

(* A regular save's turn comes: it publishes the successor of the target. *)
LEMMA BeginRegularKeeps ==
  ASSUME IInv, BeginRegular
  PROVE  IInv'
<1>. USE DEF IInv, BeginRegular, Available, saves, bounds
<1>1. Fields
  BY FieldsAreTyped
<1>2. /\ queue \in Seq(Waiting) /\ Distinct(queue)
      /\ queue # <<>> /\ queue' = Tail(queue)
  BY DEF TypeOK, Lines
<1>3. /\ queue' \in Seq(Waiting) /\ Distinct(queue') /\ Len(queue') <= 3
      /\ Queued(Head(queue)) /\ Head(queue) \in Waiting
      /\ \A p : Queued(p)' <=> Queued(p) /\ p # Head(queue)
      /\ \A p, q : Before(p, q)' => Before(p, q) /\ Queued(p)' /\ Queued(q)'
      /\ \A p : Queued(p) /\ p # Head(queue) => Before(Head(queue), p)
  BY <1>2, Dequeued
<1>4. regular # None /\ target.rev + 1 <= MaxRevision
  <2>1. RegularWaits
    BY <1>3 DEF Lines
  <2>2. Owed \in Nat /\ Owed >= 1
    BY <2>1 DEF Owed, RegularOwes
  <2>. QED BY <1>1, <2>1, <2>2, BoundsAreNaturals DEF Fields, Budget, RegularWaits
<1> DEFINE image == [text |-> regular, rev |-> target.rev + 1, sealed |-> FALSE]
<1>5. regular \in Texts /\ image \in Images
  BY <1>1, <1>4, BoundsAreNaturals
     DEF Fields, TypeOK, ManualSaves, Images, Revisions
<1>6. /\ pub' \in Publications /\ pub' # None
      /\ pub'.step = "preparing" /\ pub'.purpose = "regular"
      /\ pub'.text = regular /\ pub'.base = session.base
      /\ pub'.preserve = FALSE /\ pub'.image = image
  <2>1. Start("regular", regular, FALSE, image) /\ "regular" \in Purposes
    BY DEF BeginRegular, Purposes
  <2>. QED BY <1>5, <2>1, Started
<1>7. image.text = regular /\ image.rev = target.rev + 1
  OBVIOUS
<1>. HIDE DEF image
<1>8. TypeOK'
  BY <1>3, <1>6, Zenon DEF TypeOK
<1>9. Recovered'
  BY DEF Recovered, RecoveryIsCurrent, Live
<1>10. Lines'
  BY <1>3, <1>4, <1>6
     DEF Lines, Publishes, ManualWaits, RegularWaits, RegularFlushing
<1>11. Modes'
  BY <1>2, <1>6 DEF Modes, Publishes
<1>12. Budget'
  BY <1>1, <1>3, <1>4, <1>6, NothingMoreOwed DEF ManualOwes, RegularOwes,
       RetainedOwes, Retained, Lines, Publishes, ManualWaits, RegularWaits,
       RegularFlushing
<1>13. Publication'
  BY <1>1, <1>3, <1>4, <1>6, <1>7
     DEF Fields, Publication, Unreplaced, Succeeds, Order, Ahead, Live,
         Lines, Publishes, ManualWaits, RegularWaits, RegularFlushing
<1>14. Journal'
  BY <1>2, <1>6 DEF Journal, Replayable, Succeeds
<1>15. Retention'
  BY DEF Retention, Retained, Replayable, Succeeds
<1>16. Bases'
  BY <1>6 DEF Bases
<1>17. Working'
  BY <1>4, <1>6, <1>7 DEF Working, Live, Retained
<1>18. Order'
  BY <1>3, <1>4, <1>6, <1>7
     DEF Order, Live, Ahead, Retained, Lines, Publishes, ManualWaits,
         RegularWaits, RegularFlushing
<1>19. Typed'
  BY <1>4, <1>6, <1>7 DEF Typed, RecordTyped
<1>. QED BY <1>8, <1>9, <1>10, <1>11, <1>12, <1>13, <1>14, <1>15, <1>16,
     <1>17, <1>18, <1>19

(* The publication is refused before it wrote anything. *)
LEMMA RefuseKeeps ==
  ASSUME IInv, Refuse
  PROVE  IInv'
<1>. USE DEF IInv, Refuse, saves, bounds
<1>1. Fields
  BY FieldsAreTyped
<1>2. /\ queue \in Seq(Waiting) /\ Distinct(queue)
      /\ queue # <<>> /\ queue' = Tail(queue)
  BY DEF TypeOK, Lines
<1>3. /\ queue' \in Seq(Waiting) /\ Distinct(queue') /\ Len(queue') <= 3
      /\ Queued(Head(queue)) /\ Head(queue) \in Waiting
      /\ \A p : Queued(p)' <=> Queued(p) /\ p # Head(queue)
      /\ \A p, q : Before(p, q)' => Before(p, q) /\ Queued(p)' /\ Queued(q)'
      /\ \A p : Queued(p) /\ p # Head(queue) => Before(Head(queue), p)
  BY <1>2, Dequeued
<1>4. TypeOK'
  BY <1>3, Zenon DEF TypeOK
<1>5. Publication' /\ Journal' /\ Retention' /\ Bases' /\ Recovered'
  BY Unaffected
<1>6. Lines'
  BY <1>3 DEF Lines, Publishes, ManualWaits, RegularWaits, RegularFlushing
<1>7. Modes'
  BY <1>2 DEF Modes, Publishes
<1>8. Budget'
  BY <1>1, NothingMoreOwed
     DEF ManualOwes, RegularOwes, RetainedOwes, Retained, Publishes,
         ManualWaits, RegularWaits
<1>9. Working'
  BY DEF Working, Live, Retained
<1>10. Order'
  <2>. SUFFICES ASSUME Live' PROVE Order'
    BY DEF Order
  <2>1. Live
    BY DEF Live
  <2>2. manual' = manual \/ (manual' = None /\ ~Queued("manual")')
    BY <1>3
  <2>3. regular' = regular \/ (regular' = None /\ ~Queued("regular")' /\ ~RegularFlushing)
    BY <1>3 DEF Lines
  <2>4. (ManualWaits => Ahead(manual.text))' /\ (RegularWaits => Ahead(regular))'
    BY <2>1 DEF Order, Ahead, Retained, ManualWaits, RegularWaits, Publishes
  <2>5. (manual # None /\ manual.step = "drain" /\ RegularWaits => manual.text >= regular)'
    BY <2>1, <2>2, <2>3 DEF Order, RegularWaits, Publishes
  <2>6. (Queued("manual") /\ RegularFlushing => regular >= manual.text)'
    BY <1>3, <2>1, <2>2, <2>3 DEF Order, RegularFlushing
  <2>7. (/\ Before("manual", "regular") => regular >= manual.text
         /\ Before("regular", "manual") => manual.text >= regular)'
    <3>1. Before("manual", "regular")' =>
            Before("manual", "regular") /\ manual' = manual /\ regular' = regular
      BY <1>3, <2>2, <2>3, Zenon
    <3>2. Before("regular", "manual")' =>
            Before("regular", "manual") /\ manual' = manual /\ regular' = regular
      BY <1>3, <2>2, <2>3, Zenon
    <3>. QED BY <2>1, <3>1, <3>2 DEF Order
  <2>. QED BY <2>4, <2>5, <2>6, <2>7 DEF Order
<1>11. Typed'
  BY DEF Typed, RecordTyped
<1>. QED BY <1>4, <1>5, <1>6, <1>7, <1>8, <1>9, <1>10, <1>11

-----------------------------------------------------------------------------
(* The publication in progress *)

(* The publication's record reaches the journal. *)
LEMMA WriteRecordKeeps ==
  ASSUME IInv, WriteRecord
  PROVE  IInv'
<1>. USE DEF IInv, WriteRecord, saves, bounds, Record
<1>1. Fields
  BY FieldsAreTyped
<1>2. /\ pub' # None /\ pub'.step # "preparing" /\ pub'.step # "cleaned"
      /\ pub'.step \in {"prepared", "staged"} <=> pub.step \in {"preparing", "prepared"}
      /\ pub'.purpose = pub.purpose /\ pub'.text = pub.text /\ pub'.base = pub.base
      /\ pub'.image = pub.image /\ pub'.preserve = pub.preserve
  BY NoValues DEF TypeOK, WriteRecord, Publications, PubSteps
<1>4. journal' \in Records
  BY BoundsAreNaturals DEF TypeOK, Records, Publications, Journaled, Record
<1>3. /\ journal' # None /\ journal'.text = pub.text /\ journal'.base = pub.base
      /\ journal'.pub # None /\ journal'.pub.image = pub.image
      /\ journal'.pub.preserve = pub.preserve
  <2>1. journal'.pub \in Journaled
    BY DEF TypeOK, Publications, Journaled
  <2>2. journal'.pub # None
    BY <2>1, NoValues
  <2>. QED BY <1>4, <2>2, NoValues
<1>5. pub' \in Publications
  BY BoundsAreNaturals DEF TypeOK, Publications, PubSteps
<1>6. TypeOK'
  BY <1>4, <1>5, Zenon DEF TypeOK
<1>7. Recovered'
  BY DEF Recovered, RecoveryIsCurrent, Live
<1>8. Lines'
  BY <1>2 DEF Lines, Queued, Publishes, ManualWaits, RegularWaits,
       RegularFlushing
<1>9. Modes'
  BY <1>2, <1>3 DEF Modes, Publishes
<1>10. Budget'
  BY <1>1, <1>2, <1>3, NothingMoreOwed DEF ManualOwes, RegularOwes,
       RetainedOwes, Retained, Unreplaced, Publishes, ManualWaits,
       RegularWaits, RegularFlushing
<1>11. Publication'
  BY <1>2, <1>3 DEF Publication, Unreplaced, Succeeds
<1>12. Journal'
  <2>1. Replayable(journal)'
    BY <1>1, <1>2, <1>3
       DEF Fields, Replayable, Publication, Unreplaced, PubSteps, Purposes,
           Succeeds
  <2>. QED BY <1>2, <1>3, <2>1 DEF Journal
<1>13. Retention'
  BY <1>2, <1>3 DEF Retention, Retained, Replayable, Succeeds
<1>14. Bases'
  BY <1>2, <1>3 DEF Bases
<1>15. Working'
  BY <1>2, <1>3 DEF Working, Live, Retained
<1>16. Order'
  BY <1>2 DEF Order, Live, Ahead, Retained, Queued, Before, Publishes,
       ManualWaits, RegularWaits, RegularFlushing
<1>17. Typed'
  BY <1>2, <1>3 DEF Typed, RecordTyped
<1>. QED BY <1>6, <1>7, <1>8, <1>9, <1>10, <1>11, <1>12, <1>13, <1>14, <1>15,
     <1>16, <1>17

(* The target is replaced: the saves behind it owe one revision less. *)
LEMMA ReplaceKeeps ==
  ASSUME IInv, Replace
  PROVE  IInv'
<1>. USE DEF IInv, Replace, saves, bounds
<1>1. Fields
  BY FieldsAreTyped
<1>2. /\ pub' # None /\ pub'.step = "replaced"
      /\ pub'.purpose = pub.purpose /\ pub'.text = pub.text /\ pub'.base = pub.base
      /\ pub'.image = pub.image /\ pub'.preserve = pub.preserve /\ target' = pub.image
  BY NoValues DEF TypeOK, Replace, Publications, PubSteps
<1>3. target' \in Images /\ pub' \in Publications
  BY BoundsAreNaturals DEF TypeOK, Publications, PubSteps
<1>16. target' = target \/ Succeeds(target')
  BY <1>1, <1>2 DEF Fields, Publication, Unreplaced, Purposes
<1>17. target'.rev \in Nat /\ target'.text \in Nat
  BY <1>1, <1>2 DEF Fields
<1>18. pub.purpose \in {"acquire", "refresh"} => target' = target
  BY <1>2 DEF Publication, Unreplaced
<1>4. TypeOK'
  BY <1>3, Zenon DEF TypeOK
<1>5. Lines'
  BY <1>2 DEF Lines, Queued, Publishes, ManualWaits, RegularWaits,
       RegularFlushing
<1>6. Modes'
  BY <1>2, <1>18 DEF Modes, Publishes
<1>7. Budget'
  <2>1. CASE target' = target
    BY <1>1, <1>2, <2>1, NothingMoreOwed
       DEF ManualOwes, RegularOwes, RetainedOwes, Retained, Unreplaced,
           Publishes, ManualWaits, RegularWaits, RegularFlushing
  <2>2. CASE target' # target
    <3>1. pub.purpose \in {"manual", "regular"} /\ target'.rev = target.rev + 1
      BY <1>1, <1>16, <1>18, <2>2 DEF Fields, Purposes, Succeeds
    <3>2. ~Retained /\ ~Retained'
      BY DEF Retention, Retained
    <3>3. (ManualOwes' => ManualOwes) /\ (RegularOwes' => RegularOwes)
      BY <1>2
         DEF ManualOwes, RegularOwes, Unreplaced, Publishes, ManualWaits,
             RegularWaits, RegularFlushing
    <3>4. \/ ManualOwes /\ ~ManualOwes'
          \/ RegularOwes /\ ~RegularOwes'
      BY <1>2, <3>1
         DEF ManualOwes, RegularOwes, Unreplaced, Publishes, ManualWaits,
             RegularWaits, RegularFlushing
    <3>5. Owed \in Nat /\ Owed' \in Nat /\ Owed' + 1 <= Owed
      BY <3>2, <3>3, <3>4 DEF Owed, RetainedOwes
    <3>. QED BY <1>1, <1>17, <3>1, <3>5, BoundsAreNaturals DEF Fields, Budget
  <2>. QED BY <2>1, <2>2
<1>8. Publication'
  BY <1>2 DEF Publication, Unreplaced, Succeeds
<1>9. Journal'
  <2>. SUFFICES ASSUME journal # None PROVE Journal'
    BY DEF Journal
  <2>1. (journal.pub # None => Replayable(journal))'
    BY <1>1, <1>2 DEF Fields, Journal, Replayable
  <2>2. (journal.pub = None /\ journal.base = target.rev => journal.text >= target.text)'
    BY <1>1, <1>16, <1>17, BasesStayBehind DEF Fields, Bases, Journal
  <2>. QED BY <1>2, <2>1, <2>2 DEF Journal
<1>10. Retention'
  BY <1>2 DEF Retention, Retained, Replayable, Succeeds
<1>11. Bases'
  <2>1. /\ session.base \in Nat /\ session.base <= target.rev
        /\ pub # None => pub.base \in Nat /\ pub.base <= target.rev
        /\ journal # None => journal.base \in Nat /\ journal.base <= target.rev
        /\ session.record # None =>
             session.record.base \in Nat /\ session.record.base <= target.rev
        /\ flush # None /\ flush.step = "writing" =>
             flush.base \in Nat /\ flush.base <= target.rev
        /\ late # None => late.base \in Nat /\ late.base <= target.rev
    BY <1>1 DEF Fields, Bases
  <2>2. /\ session.base <= target'.rev
        /\ pub # None => pub.base <= target'.rev
        /\ journal # None => journal.base <= target'.rev
        /\ session.record # None => session.record.base <= target'.rev
    BY <1>1, <1>16, <1>17, <2>1, BasesStayBehind
  <2>3. /\ flush # None /\ flush.step = "writing" =>
             /\ flush.base <= target'.rev
             /\ flush.base = target'.rev => flush.text >= target'.text
        /\ late # None =>
             /\ late.base <= target'.rev
             /\ late.base = target'.rev => late.text >= target'.text
    BY <1>1, <1>16, <1>17, <2>1, BasesStayBehind DEF Bases
  <2>. QED BY <1>2, <2>2, <2>3 DEF Bases
<1>12. Recovered'
  BY <1>18 DEF Recovered, RecoveryIsCurrent, Live, Modes, Publishes
<1>13. Working'
  BY <1>1, <1>2, <1>18 DEF Fields, Working, Live, Retained, Modes, Publishes
<1>14. Order'
  BY <1>2 DEF Order, Live, ManualWaits, RegularWaits, RegularFlushing,
       Publishes, Queued, Before, Ahead, Retained
<1>15. Typed'
  BY <1>2 DEF Typed, RecordTyped
<1>. QED BY <1>4, <1>5, <1>6, <1>7, <1>8, <1>9, <1>10, <1>11, <1>12, <1>13,
     <1>14, <1>15

(* The replaced publication cleans the journal and goes on. *)
LEMMA CleanupOnKeeps ==
  ASSUME IInv, Cleanup, mode \in {"viewing", "editing"}
  PROVE  IInv'
<1>. USE DEF IInv, Cleanup, saves, bounds, Leftover, Record
<1>1. Fields
  BY FieldsAreTyped
<1>2. /\ pub' # None
      /\ pub'.step = "cleaned"
      /\ pub'.purpose = pub.purpose
      /\ pub'.text = pub.text
      /\ pub'.base = pub.base
      /\ pub'.image = pub.image
      /\ pub'.preserve = pub.preserve
  BY NoValues DEF TypeOK, Cleanup, Publications, PubSteps
<1>3. journal' # None =>
        /\ journal'.pub = None /\ journal'.text = pub.text
        /\ journal'.base = pub.base /\ pub.preserve
  BY NoValues DEF TypeOK, Cleanup, Publications, Leftover, Record
<1>4. journal' \in Records \cup {None}
  BY BoundsAreNaturals DEF TypeOK, Publications, Records, Leftover, Record
<1>5. pub' \in Publications
  BY BoundsAreNaturals DEF TypeOK, Publications, PubSteps
<1>6. TypeOK'
  BY <1>4, <1>5, Zenon DEF TypeOK
<1>7. Recovered'
  BY DEF Recovered, RecoveryIsCurrent, Live
<1>8. Lines'
  BY <1>2, <1>3, Zenon DEF Lines, Queued, Publishes, ManualWaits,
       RegularWaits, RegularFlushing
<1>9. Modes'
  BY <1>2, <1>3 DEF Modes, Publishes
<1>10. Budget'
  BY <1>1, <1>2, <1>3, NothingMoreOwed DEF ManualOwes, RegularOwes,
       RetainedOwes, Retained, Unreplaced, Publishes, ManualWaits,
       RegularWaits, RegularFlushing
<1>11. Publication'
  BY <1>2, <1>3, Zenon DEF Publication, Unreplaced, Succeeds
<1>12. Journal'
  BY <1>1, <1>2, <1>3, NoValues, BoundsAreNaturals DEF Journal, Replayable,
       Succeeds, Lines, Queued, Publishes, ManualWaits, RegularWaits,
       RegularFlushing, Modes, Budget, Owed, Unreplaced, Retained,
       Publication, Retention, Bases, Recovered, RecoveryIsCurrent, Live,
       Working, Order, Ahead, Typed, RecordTyped, Fields, Texts, PubSteps,
       Purposes, LeaseWork, Leftover
<1>13. Retention'
  BY <1>2, <1>3, Zenon DEF Retention, Retained, Replayable, Succeeds
<1>14. Bases'
  BY <1>2, <1>3, Zenon DEF Bases
<1>15. Working'
  BY <1>2, <1>3, Zenon DEF Working, Live, Retained
<1>16. Order'
  BY <1>2, <1>3 DEF Order, Live, ManualWaits, RegularWaits, RegularFlushing,
       Publishes, Queued, Before, Ahead, Retained
<1>17. Typed'
  BY <1>2, <1>3 DEF Typed, RecordTyped
<1>. QED BY <1>6, <1>7, <1>8, <1>9, <1>10, <1>11, <1>12, <1>13, <1>14, <1>15,
     <1>16, <1>17

(* The cleanup finds nobody left to tell: the publication ends. *)
LEMMA CleanupEndsKeeps ==
  ASSUME IInv, Cleanup, mode \notin {"viewing", "editing"}
  PROVE  IInv'
<1>. USE DEF IInv, Cleanup, saves, bounds, Leftover, Record, PublicationEnds
<1>1. Fields
  BY FieldsAreTyped
<1>2. pub' = None
  BY DEF Cleanup, PublicationEnds
<1>3. journal' # None =>
        /\ journal'.pub = None /\ journal'.text = pub.text
        /\ journal'.base = pub.base /\ pub.preserve
  BY NoValues DEF TypeOK, Cleanup, Publications, Leftover, Record
<1>4. journal' \in Records \cup {None}
  BY BoundsAreNaturals DEF TypeOK, Publications, Records, Leftover, Record
<1>5. TypeOK'
  BY <1>4, Zenon DEF TypeOK
<1>6. Recovered'
  BY DEF Recovered, RecoveryIsCurrent, Live
<1>7. Lines'
  BY <1>2, <1>3 DEF Lines, Queued, Publishes, ManualWaits, RegularWaits,
       RegularFlushing
<1>8. Modes'
  BY <1>2, <1>3 DEF Modes, Publishes
<1>9. Budget'
  BY <1>1, <1>2, <1>3, NothingMoreOwed DEF ManualOwes, RegularOwes,
       RetainedOwes, Retained, Unreplaced, Publishes, ManualWaits,
       RegularWaits, RegularFlushing
<1>10. Publication'
  BY <1>2, <1>3 DEF Publication, Unreplaced, Succeeds
<1>11. Journal'
  BY <1>1, <1>2, <1>3, NoValues, BoundsAreNaturals DEF Journal, Replayable,
       Succeeds, Publication, Unreplaced, Modes, Publishes, Recovered,
       RecoveryIsCurrent, Live, Fields
<1>12. Retention'
  BY <1>2, <1>3 DEF Retention, Retained, Replayable, Succeeds
<1>13. Bases'
  BY <1>2, <1>3 DEF Bases
<1>14. Working'
  BY <1>2, <1>3 DEF Working, Live, Retained
<1>15. Order'
  BY <1>1, <1>2, <1>3, <1>4, <1>7, NoValues, OrderStays DEF ManualWaits,
       RegularWaits, RegularFlushing, Publishes, Retained, Live
<1>16. Typed'
  BY <1>2, <1>3 DEF Typed, RecordTyped
<1>. QED BY <1>5, <1>6, <1>7, <1>8, <1>9, <1>10, <1>11, <1>12, <1>13, <1>14,
     <1>15, <1>16

(* The lease is held: the session is live, its text the target's. *)
LEMMA AcquiredKeeps ==
  ASSUME IInv, Acquired
  PROVE  IInv'
<1>. USE DEF IInv, Acquired, saves, bounds, Live
<1>1. Fields
  BY FieldsAreTyped
<1>2. /\ session'.working = (IF session.recovery = None THEN session.opened
                            ELSE session.recovery.text)
      /\ session'.dirty = (session.recovery # None \/ ~session.sealed)
      /\ session'.opened = session.opened
      /\ session'.base = session.base
      /\ session'.recovery = session.recovery
      /\ session'.pending = session.pending
      /\ session'.record = session.record
  BY DEF TypeOK, Acquired, Session
<1>3. session' \in Session
  BY BoundsAreNaturals DEF TypeOK, Session
<1>4. TypeOK'
  BY <1>3, Zenon DEF TypeOK
<1>5. Lines'
  BY <1>2 DEF Lines, Queued, Publishes, ManualWaits, RegularWaits,
       RegularFlushing
<1>6. Modes'
  BY <1>2 DEF Modes, Publishes
<1>7. Budget'
  BY <1>1, <1>2, NothingMoreOwed DEF ManualOwes, RegularOwes, RetainedOwes,
       Retained, Unreplaced, Publishes, ManualWaits, RegularWaits,
       RegularFlushing
<1>8. Publication'
  BY <1>2 DEF Publication, Unreplaced, Succeeds
<1>9. Journal'
  BY <1>2 DEF Journal, Replayable, Succeeds
<1>10. Retention'
  BY <1>2 DEF Retention, Retained, Replayable, Succeeds
<1>11. Bases'
  BY <1>2 DEF Bases
<1>12. Recovered'
  BY <1>2, Zenon DEF Recovered, RecoveryIsCurrent, Live
<1>13. Working'
  BY <1>1, <1>2, NoValues, BoundsAreNaturals DEF Working, Live, Retained,
       Lines, Queued, Publishes, ManualWaits, RegularWaits, RegularFlushing,
       Modes, Budget, Owed, Unreplaced, Publication, Succeeds, Journal,
       Replayable, Retention, Bases, Recovered, RecoveryIsCurrent, Order,
       Ahead, Typed, RecordTyped, Fields, Texts, PubSteps, Purposes,
       LeaseWork, Leftover
<1>14. Order'
  BY <1>1, <1>2 DEF Order, Modes, ManualWaits, RegularWaits, RegularFlushing,
       Queued, Before, Waits, InOrder, Publishes, Lines
<1>15. Typed'
  BY <1>2 DEF Typed, RecordTyped
<1>. QED BY <1>4, <1>5, <1>6, <1>7, <1>8, <1>9, <1>10, <1>11, <1>12, <1>13,
     <1>14, <1>15

(* The refreshed lease is in the target; the session's text is its own. *)
LEMMA RefreshedKeeps ==
  ASSUME IInv, Refreshed
  PROVE  IInv'
<1>. USE DEF IInv, Refreshed, saves, bounds
<1>1. Fields
  BY FieldsAreTyped
<1>2. TypeOK'
  BY DEF TypeOK
<1>3. Recovered'
  BY DEF Recovered, RecoveryIsCurrent, Live
<1>4. Lines'
  BY DEF Lines, Queued, Publishes, ManualWaits, RegularWaits, RegularFlushing
<1>5. Modes'
  BY DEF Modes, Publishes
<1>6. Budget'
  BY <1>1, NothingMoreOwed DEF ManualOwes, RegularOwes, RetainedOwes,
       Retained, Unreplaced, Publishes, ManualWaits, RegularWaits,
       RegularFlushing
<1>7. Publication'
  BY DEF Publication, Unreplaced, Succeeds
<1>8. Journal'
  BY DEF Journal, Replayable, Succeeds
<1>9. Retention'
  BY DEF Retention, Retained, Replayable, Succeeds
<1>10. Bases'
  BY DEF Bases
<1>11. Working'
  BY DEF Working, Live, Retained
<1>12. Order'
  BY DEF Order, Live, ManualWaits, RegularWaits, RegularFlushing, Publishes,
       Queued, Before, Ahead, Retained
<1>13. Typed'
  BY DEF Typed, RecordTyped
<1>. QED BY <1>2, <1>3, <1>4, <1>5, <1>6, <1>7, <1>8, <1>9, <1>10, <1>11,
     <1>12, <1>13

(* The manual save is published and will be adopted. *)
LEMMA ManualPublishedLiveKeeps ==
  ASSUME IInv, ManualPublished, Live
  PROVE  IInv'
<1>. USE DEF IInv, ManualPublished, bounds, Live
<1>1. Fields
  BY FieldsAreTyped
<1>2. /\ session'.working = session.working
      /\ session'.dirty = session.dirty
      /\ session'.opened = pub.text
      /\ session'.base = pub.image.rev
      /\ session'.recovery = session.recovery
      /\ session'.pending = session.pending
      /\ session'.record = session.record
  BY DEF TypeOK, ManualPublished, Session
<1>3. manual' # None /\ manual'.step = "adopting" /\ manual'.text = manual.text /\ pub' = None
  BY NoValues DEF TypeOK, Lines, Publishes, ManualPublished, ManualSaves
<1>4. session' \in Session
  BY BoundsAreNaturals DEF TypeOK, Session, Publications, Images, Keys, Live
<1>5. manual' \in ManualSaves
  BY BoundsAreNaturals DEF TypeOK, ManualSaves, Lines, Publishes, Live
<1>6. TypeOK'
  BY <1>4, <1>5, Zenon DEF TypeOK
<1>7. Lines'
  BY <1>2, <1>3 DEF Lines, Queued, Publishes, ManualWaits, RegularWaits,
       RegularFlushing
<1>8. Modes'
  BY <1>2, <1>3 DEF Modes, Publishes
<1>9. Budget'
  BY <1>1, <1>2, <1>3, NothingMoreOwed DEF ManualOwes, RegularOwes,
       RetainedOwes, Retained, Unreplaced, Publishes, ManualWaits,
       RegularWaits, RegularFlushing
<1>10. Publication'
  BY <1>2, <1>3 DEF Publication, Unreplaced, Succeeds
<1>11. Journal'
  BY <1>2, <1>3 DEF Journal, Replayable, Succeeds
<1>12. Retention'
  BY <1>2, <1>3 DEF Retention, Retained, Replayable, Succeeds
<1>13. Bases'
  BY <1>1, <1>2, <1>3, NoValues, BoundsAreNaturals DEF Bases, Publication,
       Unreplaced, Succeeds, Journal, Replayable, Working, Live, Retained,
       Fields
<1>14. Recovered'
  BY <1>2, <1>3 DEF Recovered, RecoveryIsCurrent, Live
<1>15. Working'
  BY <1>1, <1>2, <1>3, NoValues, BoundsAreNaturals DEF Working, Live,
       Retained, Lines, Queued, Publishes, ManualWaits, RegularWaits,
       RegularFlushing, Modes, Order, Ahead, Typed, RecordTyped, Publication,
       Unreplaced, Succeeds, Fields
<1>16. Order'
  BY <1>2, <1>3 DEF Order, Live, ManualWaits, RegularWaits, RegularFlushing,
       Publishes, Queued, Before, Ahead, Retained
<1>17. Typed'
  BY <1>1, <1>2, <1>3, NoValues, BoundsAreNaturals DEF Typed, RecordTyped,
       Modes, Publishes, Lines, Queued, ManualWaits, RegularWaits,
       RegularFlushing, Fields
<1>. QED BY <1>6, <1>7, <1>8, <1>9, <1>10, <1>11, <1>12, <1>13, <1>14, <1>15,
     <1>16, <1>17

(* The manual save is published after the session ended. *)
LEMMA ManualPublishedLateKeeps ==
  ASSUME IInv, ManualPublished, ~Live
  PROVE  IInv'
<1>. USE DEF IInv, ManualPublished, bounds, Live
<1>1. Fields
  BY FieldsAreTyped
<1>2. TypeOK'
  BY DEF TypeOK
<1>3. Recovered'
  BY DEF Recovered, RecoveryIsCurrent, Live
<1>4. Lines'
  BY DEF Lines, Queued, Publishes, ManualWaits, RegularWaits, RegularFlushing
<1>5. Modes'
  BY DEF Modes, Publishes
<1>6. Budget'
  BY <1>1, NothingMoreOwed DEF ManualOwes, RegularOwes, RetainedOwes,
       Retained, Unreplaced, Publishes, ManualWaits, RegularWaits,
       RegularFlushing
<1>7. Publication'
  BY DEF Publication, Unreplaced, Succeeds
<1>8. Journal'
  BY DEF Journal, Replayable, Succeeds
<1>9. Retention'
  BY DEF Retention, Retained, Replayable, Succeeds
<1>10. Bases'
  BY DEF Bases
<1>11. Working'
  BY DEF Working, Live, Retained
<1>12. Order'
  BY DEF Order, Live, ManualWaits, RegularWaits, RegularFlushing, Publishes,
       Queued, Before, Ahead, Retained
<1>13. Typed'
  BY DEF Typed, RecordTyped
<1>. QED BY <1>2, <1>3, <1>4, <1>5, <1>6, <1>7, <1>8, <1>9, <1>10, <1>11,
     <1>12, <1>13

(* The session adopts the saved text, and stays dirty if it typed on. *)
LEMMA AdoptManualLiveKeeps ==
  ASSUME IInv, AdoptManual, Live
  PROVE  IInv'
<1>. USE DEF IInv, AdoptManual, bounds, Live
<1>1. Fields
  BY FieldsAreTyped
<1>2. manual' = None
      /\ session'.working = session.working
      /\ session'.dirty = (session.working # manual.text \/ FALSE)
      /\ session'.opened = session.opened
      /\ session'.base = session.base
      /\ session'.recovery = None
      /\ session'.pending = FALSE
      /\ session'.record = None
  BY DEF TypeOK, AdoptManual, Adopt, Session, Live
<1>3. session' \in Session /\ timer' \in BOOLEAN
  BY BoundsAreNaturals DEF TypeOK, Session, Adopt, Keys, Live
<1>4. TypeOK'
  BY <1>3, Zenon DEF TypeOK
<1>5. Publication' /\ Journal'
  BY Unaffected
<1>6. Lines'
  BY <1>2 DEF Lines, Queued, Publishes, ManualWaits, RegularWaits,
       RegularFlushing
<1>7. Modes'
  BY <1>2 DEF Modes, Publishes
<1>8. Budget'
  BY <1>1, <1>2, NothingMoreOwed DEF ManualOwes, RegularOwes, RetainedOwes,
       Retained, Unreplaced, Publishes, ManualWaits, RegularWaits,
       RegularFlushing
<1>9. Retention'
  BY <1>2 DEF Retention, Retained, Replayable, Succeeds
<1>10. Bases'
  BY <1>2 DEF Bases
<1>11. Recovered'
  BY <1>2 DEF Recovered, RecoveryIsCurrent, Live
<1>12. Working'
  BY <1>2 DEF Working, Live, Retained
<1>13. Order'
  BY <1>1, <1>2, <1>3, <1>6, NoValues, OrderStays DEF ManualWaits,
       RegularWaits, RegularFlushing, Publishes, Retained, Live
<1>14. Typed'
  BY <1>2, Zenon DEF Typed, RecordTyped
<1>. QED BY <1>4, <1>5, <1>6, <1>7, <1>8, <1>9, <1>10, <1>11, <1>12, <1>13,
     <1>14

(* There is no session left to adopt the saved text. *)
LEMMA AdoptManualLateKeeps ==
  ASSUME IInv, AdoptManual, ~Live
  PROVE  IInv'
<1>. USE DEF IInv, AdoptManual, bounds, Live
<1>1. Fields
  BY FieldsAreTyped
<1>10. UNCHANGED <<session, timer>>
  OBVIOUS
<1>2. TypeOK'
  BY <1>10, Zenon DEF TypeOK
<1>3. Publication' /\ Journal' /\ Retention' /\ Bases' /\ Recovered'
  BY <1>10, Unaffected
<1>4. Lines'
  BY DEF Lines, Queued, Publishes, ManualWaits, RegularWaits,
       RegularFlushing
<1>5. Modes'
  BY DEF Modes, Publishes
<1>6. Budget'
  BY <1>1, NothingMoreOwed DEF ManualOwes, RegularOwes, RetainedOwes,
       Retained, Unreplaced, Publishes, ManualWaits, RegularWaits,
       RegularFlushing
<1>7. Working'
  BY DEF Working, Live, Retained
<1>8. Order'
  BY DEF Order, Live, ManualWaits, RegularWaits, RegularFlushing, Publishes,
       Queued, Before, Ahead, Retained
<1>9. Typed'
  BY DEF Typed, RecordTyped
<1>. QED BY <1>2, <1>3, <1>4, <1>5, <1>6, <1>7, <1>8, <1>9

(* The session takes the regular save as the text it was opened with. *)
LEMMA RegularPublishedLiveKeeps ==
  ASSUME IInv, RegularPublished, Live
  PROVE  IInv'
<1>. USE DEF IInv, RegularPublished, bounds, Live
<1>1. Fields
  BY FieldsAreTyped
<1>2. /\ session'.working = session.working
      /\ session'.dirty = TRUE
      /\ session'.opened = pub.text
      /\ session'.base = pub.image.rev
      /\ session'.recovery = session.recovery
      /\ session'.pending = session.pending
      /\ session'.record = session.record
  BY DEF TypeOK, RegularPublished, Session, Live
<1>3. /\ late' \in Checkpoints /\ late' # None
      /\ late'.text = session.working /\ late'.base = pub.image.rev
      /\ pub' = None /\ regular' = None
  <2>1. session.working # Undefined
    BY DEF Working, Lines, Publishes
  <2>2. late' = [text |-> session.working, base |-> pub.image.rev, key |-> "good"]
    OBVIOUS
  <2>3. late' \in Checkpoints
    BY <2>1, <2>2 DEF TypeOK, Session, Checkpoints, Publications, Images, Keys
  <2>. QED BY <2>2, <2>3, NoValues
<1>4. session' \in Session
  BY BoundsAreNaturals DEF TypeOK, Session, Publications, Images, Keys, Live
<1>6. TypeOK'
  BY <1>3, <1>4, Zenon DEF TypeOK
<1>7. Lines'
  BY <1>2, <1>3 DEF Lines, Queued, Publishes, ManualWaits, RegularWaits,
       RegularFlushing
<1>8. Modes'
  BY <1>2, <1>3 DEF Modes, Publishes
<1>9. Budget'
  BY <1>1, <1>2, <1>3, NothingMoreOwed DEF ManualOwes, RegularOwes,
       RetainedOwes, Retained, Unreplaced, Publishes, ManualWaits,
       RegularWaits, RegularFlushing
<1>10. Publication'
  BY <1>2, <1>3, Zenon DEF Publication, Unreplaced, Succeeds
<1>11. Journal'
  BY <1>2, <1>3 DEF Journal, Replayable, Succeeds
<1>12. Retention'
  BY <1>2, <1>3 DEF Retention, Retained, Replayable, Succeeds
<1>13. Bases'
  BY <1>1, <1>2, <1>3, NoValues, BoundsAreNaturals DEF Bases, Publication,
       Unreplaced, Succeeds, Journal, Replayable, Working, Live, Retained,
       Fields
<1>14. Recovered'
  BY <1>2, <1>3 DEF Recovered, RecoveryIsCurrent, Live
<1>15. Working'
  BY <1>2, <1>3 DEF Working, Live, Retained
<1>16. Order'
  BY <1>1, <1>2, <1>3, <1>4, <1>7, NoValues, OrderStays DEF ManualWaits,
       RegularWaits, RegularFlushing, Publishes, Retained, Live
<1>17. Typed'
  <2>1. session.working \in Nat /\ session.working # Undefined /\ session.working <= newest
    BY <1>1 DEF Fields, Working, Live, Lines, Publishes, Typed
  <2>. QED BY <1>1, <1>2, <1>3, <2>1 DEF Typed, RecordTyped
<1>. QED BY <1>6, <1>7, <1>8, <1>9, <1>10, <1>11, <1>12, <1>13, <1>14, <1>15,
     <1>16, <1>17

(* The regular save is published after the session ended. *)
LEMMA RegularPublishedLateKeeps ==
  ASSUME IInv, RegularPublished, ~Live
  PROVE  IInv'
<1>. USE DEF IInv, RegularPublished, bounds, Live
<1>1. Fields
  BY FieldsAreTyped
<1>2. TypeOK'
  BY DEF TypeOK
<1>3. Recovered'
  BY DEF Recovered, RecoveryIsCurrent, Live
<1>4. Lines'
  BY DEF Lines, Queued, Publishes, ManualWaits, RegularWaits, RegularFlushing
<1>5. Modes'
  BY DEF Modes, Publishes
<1>6. Budget'
  BY <1>1, NothingMoreOwed DEF ManualOwes, RegularOwes, RetainedOwes,
       Retained, Unreplaced, Publishes, ManualWaits, RegularWaits,
       RegularFlushing
<1>7. Publication'
  BY DEF Publication, Unreplaced, Succeeds
<1>8. Journal'
  BY DEF Journal, Replayable, Succeeds
<1>9. Retention'
  BY DEF Retention, Retained, Replayable, Succeeds
<1>10. Bases'
  BY DEF Bases
<1>11. Working'
  BY DEF Working, Live, Retained
<1>12. Order'
  BY DEF Order, Live, ManualWaits, RegularWaits, RegularFlushing, Publishes,
       Queued, Before, Ahead, Retained
<1>13. Typed'
  BY DEF Typed, RecordTyped
<1>. QED BY <1>2, <1>3, <1>4, <1>5, <1>6, <1>7, <1>8, <1>9, <1>10, <1>11,
     <1>12, <1>13

(* A checkpoint that outlived its session reaches the journal. *)
LEMMA LandLateKeeps ==
  ASSUME IInv, LandLate
  PROVE  IInv'
<1>. USE DEF IInv, LandLate, chains, bounds, Work
<1>1. Fields
  BY FieldsAreTyped
<1>2. journal' \in Records
  BY BoundsAreNaturals DEF TypeOK, Records, Checkpoints, Work
<1>3. TypeOK'
  BY <1>2, Zenon DEF TypeOK
<1>4. Lines' /\ Budget' /\ Publication' /\ Retention' /\ Recovered' /\
     Working' /\ Order'
  BY Unaffected
<1>5. Modes'
  BY DEF Modes, Publishes
<1>6. Journal'
  BY DEF Journal, Bases
<1>7. Bases'
  BY DEF Bases
<1>8. Typed'
  BY DEF Typed, RecordTyped
<1>. QED BY <1>3, <1>4, <1>5, <1>6, <1>7, <1>8

(* The user retries the publication that is pending. *)
LEMMA RetryKeeps ==
  ASSUME IInv, Retry
  PROVE  IInv'
<1>. USE DEF IInv, Retry, saves, bounds, Live, Leftover
<1>1. Fields
  BY FieldsAreTyped
<1>2. /\ target' = session.record.pub.image /\ journal' = Leftover(session.record)
      /\ session'.working = session.working
      /\ session'.dirty = (\/ session.working # session.record.pub.image.text
                          \/ ~session.record.pub.image.sealed)
      /\ session'.opened = session.record.pub.image.text
      /\ session'.base = session.record.pub.image.rev
      /\ session'.recovery = None
      /\ session'.pending = FALSE
      /\ session'.record = None
  BY DEF TypeOK, Retry, Session
<1>3. journal' # None =>
        /\ journal'.pub = None /\ journal'.text = session.record.text
        /\ journal'.base = session.record.base /\ session.record.pub.preserve
  BY NoValues DEF TypeOK, Retry, Session, Leftover, Records
<1>4. target' \in Images
  BY BoundsAreNaturals DEF TypeOK, Session, Records, Journaled
<1>5. session' \in Session /\ timer' \in BOOLEAN
  BY BoundsAreNaturals DEF TypeOK, Session, Records, Journaled, Images, Keys
<1>6. journal' \in Records \cup {None}
  BY BoundsAreNaturals DEF TypeOK, Session, Records, Leftover
<1>20. target' = target \/ Succeeds(target')
  BY <1>2 DEF Retention, Retained, Replayable
<1>21. target'.rev \in Nat /\ target'.text \in Nat
  BY <1>4, BoundsAreNaturals DEF Images, Texts, Revisions
<1>7. TypeOK'
  BY <1>4, <1>5, <1>6, Zenon DEF TypeOK
<1>8. Lines'
  BY DEF Lines, Queued, Publishes, ManualWaits, RegularWaits,
       RegularFlushing
<1>9. Modes'
  BY <1>2, <1>3 DEF Modes, Publishes
<1>10. Budget'
  <2>1. ManualOwes' = ManualOwes /\ RegularOwes' = RegularOwes
    BY DEF ManualOwes, RegularOwes, Unreplaced, Publishes, ManualWaits,
           RegularWaits, RegularFlushing
  <2>2. ~RetainedOwes'
    BY <1>2 DEF RetainedOwes, Retained
  <2>3. CASE target' = target
    BY <1>1, <2>1, <2>2, <2>3, NothingMoreOwed
  <2>4. CASE target' # target
    <3>1. RetainedOwes /\ target'.rev = target.rev + 1
      BY <1>2, <1>20, <2>4 DEF RetainedOwes, Retained, Succeeds
    <3>2. Owed \in Nat /\ Owed' \in Nat /\ Owed' + 1 <= Owed
      BY <2>1, <2>2, <3>1 DEF Owed
    <3>. QED BY <1>1, <1>21, <3>1, <3>2, BoundsAreNaturals DEF Fields, Budget
  <2>. QED BY <2>3, <2>4
<1>11. Publication'
  BY <1>2, <1>3 DEF Publication, Unreplaced, Succeeds
<1>12. Journal'
  BY <1>2, <1>3 DEF Journal, Retention, Retained, Replayable
<1>13. Retention'
  BY <1>2, <1>3 DEF Retention, Retained, Replayable, Succeeds
<1>14. Bases'
  <2>1. /\ session.base \in Nat /\ session.base <= target.rev
        /\ pub # None => pub.base \in Nat /\ pub.base <= target.rev
        /\ journal # None => journal.base \in Nat /\ journal.base <= target.rev
        /\ session.record # None =>
             session.record.base \in Nat /\ session.record.base <= target.rev
        /\ flush # None /\ flush.step = "writing" =>
             flush.base \in Nat /\ flush.base <= target.rev
        /\ late # None => late.base \in Nat /\ late.base <= target.rev
    BY <1>1 DEF Fields, Bases
  <2>2. /\ session.base <= target'.rev
        /\ pub # None => pub.base <= target'.rev
        /\ journal # None => journal.base <= target'.rev
        /\ session.record # None => session.record.base <= target'.rev
    BY <1>1, <1>20, <1>21, <2>1, BasesStayBehind
  <2>3. /\ flush # None /\ flush.step = "writing" =>
             /\ flush.base <= target'.rev
             /\ flush.base = target'.rev => flush.text >= target'.text
        /\ late # None =>
             /\ late.base <= target'.rev
             /\ late.base = target'.rev => late.text >= target'.text
    BY <1>1, <1>20, <1>21, <2>1, BasesStayBehind DEF Bases
  <2>. QED BY <1>2, <1>3, <1>21, <2>2, <2>3 DEF Bases
<1>15. Recovered'
  BY <1>2, <1>3 DEF Recovered, RecoveryIsCurrent, Live
<1>16. Working'
  BY <1>2, <1>3 DEF Working, Live, Retained
<1>17. Order'
  BY <1>1, <1>2, <1>3, NoValues, BoundsAreNaturals DEF Order, Live,
       ManualWaits, RegularWaits, RegularFlushing, Publishes, Queued, Before, Ahead,
       Retained, Fields
<1>18. Typed'
  BY <1>2, <1>3 DEF Typed, RecordTyped
<1>. QED BY <1>7, <1>8, <1>9, <1>10, <1>11, <1>12, <1>13, <1>14, <1>15, <1>16,
     <1>17, <1>18

-----------------------------------------------------------------------------
(* Lock *)

(* A lock starts. *)
LEMMA LockKeeps ==
  ASSUME IInv, Lock
  PROVE  IInv'
<1>. USE DEF IInv, Lock, saves, bounds, StartLock
<1>1. Fields
  BY FieldsAreTyped
<1>2. TypeOK'
  BY DEF TypeOK
<1>3. Lines' /\ Budget' /\ Publication' /\ Journal' /\ Retention' /\ Bases' /\
     Typed'
  BY Unaffected
<1>4. Modes'
  BY DEF Modes, Publishes
<1>5. Recovered'
  BY DEF Recovered, RecoveryIsCurrent, Live
<1>6. Working'
  BY DEF Working, Live, Retained
<1>7. Order'
  BY DEF Order, Live, ManualWaits, RegularWaits, RegularFlushing, Publishes,
       Queued, Before, Ahead, Retained
<1>. QED BY <1>2, <1>3, <1>4, <1>5, <1>6, <1>7

(* The lock writes a last checkpoint of unsaved work. *)
LEMMA LockFlushesKeeps ==
  ASSUME IInv, LockFlush, NeedsCheckpoint
  PROVE  IInv'
<1>. USE DEF IInv, LockFlush, saves, bounds, Live
<1>1. Fields
  BY FieldsAreTyped
<1>2. flush' # None /\ flush'.step = "reading" /\ flush'.owner = "lock" /\ mode' = "flushing"
  BY NoValues DEF LockFlush, Flushes, Owners
<1>3. flush' \in Flushes
  BY BoundsAreNaturals DEF TypeOK, Flushes, Owners
<1>4. TypeOK'
  BY <1>3, Zenon DEF TypeOK
<1>5. Budget' /\ Publication' /\ Journal' /\ Retention'
  BY Unaffected
<1>6. Lines'
  BY <1>2 DEF Lines, Queued, Publishes, ManualWaits, RegularWaits,
       RegularFlushing
<1>7. Modes'
  BY <1>2 DEF Modes, Publishes
<1>8. Bases'
  BY <1>2, Zenon DEF Bases
<1>9. Recovered'
  BY <1>2 DEF Recovered, RecoveryIsCurrent, Live
<1>10. Working'
  BY <1>2 DEF Working, Live, Retained
<1>11. Order'
  BY <1>2 DEF Order, Live, ManualWaits, RegularWaits, RegularFlushing,
       Publishes, Queued, Before, Ahead, Retained
<1>12. Typed'
  BY <1>2 DEF Typed, RecordTyped
<1>. QED BY <1>4, <1>5, <1>6, <1>7, <1>8, <1>9, <1>10, <1>11, <1>12

(* The lock has nothing to write: the session ends. *)
LEMMA LockEndsKeeps ==
  ASSUME IInv, LockFlush, ~NeedsCheckpoint
  PROVE  IInv'
<1>. USE DEF IInv, LockFlush, saves, bounds
<1>1. Fields
  BY FieldsAreTyped
<1>2. /\ session' = NoSession /\ mode' = "closed" /\ timer' = FALSE
      /\ session' \in Session /\ session'.base = 0 /\ session'.opened = 0
      /\ session'.working = 0 /\ session'.working # Undefined
      /\ session'.recovery = None /\ session'.record = None
      /\ session'.pending = FALSE
      /\ pub' \in Publications \cup {None}
      /\ pub = None => pub' = None
      /\ pub # None =>
           /\ pub' # None /\ pub'.step = pub.step /\ pub'.purpose = pub.purpose
           /\ pub'.text = pub.text /\ pub'.base = pub.base
           /\ pub'.image = pub.image /\ pub'.preserve = pub.preserve
  BY SessionEnded
<1>3. ~Live' /\ Live /\ mode # "viewing" /\ journalSaved' \in BOOLEAN
  BY <1>2 DEF Live
<1>4. TypeOK'
  BY <1>2, <1>3, Zenon DEF TypeOK
<1>5. Lines'
  BY <1>2 DEF Lines, Queued, Publishes, ManualWaits, RegularWaits, RegularFlushing
<1>6. Modes'
  BY <1>2, <1>3 DEF Modes, Publishes
<1>7. Budget'
  BY <1>1, <1>2, NothingMoreOwed
     DEF ManualOwes, RegularOwes, RetainedOwes, Retained, Unreplaced,
         Publishes, ManualWaits, RegularWaits, RegularFlushing
<1>8. Publication'
  BY <1>2 DEF Publication, Unreplaced, Succeeds
<1>9. Journal'
  BY <1>2 DEF Journal, Replayable, Succeeds
<1>10. Retention'
  BY <1>2 DEF Retention, Retained
<1>11. Bases'
  BY <1>1, <1>2 DEF Fields, Bases
<1>12. Recovered'
  BY <1>2 DEF Recovered, RecoveryIsCurrent
<1>13. Working' /\ Order'
  BY <1>3 DEF Working, Order
<1>14. Typed'
  BY <1>1, <1>2 DEF Fields, Typed, RecordTyped
<1>. QED BY <1>4, <1>5, <1>6, <1>7, <1>8, <1>9, <1>10, <1>11, <1>12, <1>13, <1>14

-----------------------------------------------------------------------------
(* Failures and crashes *)

(* A call of the publication fails while its session goes on. *)
LEMMA FailKeeps ==
  ASSUME IInv, Fail, mode \in {"viewing", "editing"}
  PROVE  IInv'
<1>. USE DEF IInv
<1>1. Fields
  BY FieldsAreTyped
<1>2. /\ pub # None /\ pub.step # "cleaned" /\ pub' = None
      /\ manual' = IF pub.purpose = "manual" THEN None ELSE manual
      /\ regular' = IF pub.purpose = "regular" THEN None ELSE regular
      /\ target' = target /\ journal' = journal /\ flush' = flush
      /\ queue' = queue /\ late' = late /\ journalSaved' = journalSaved
      /\ newest' = newest /\ refreshes' = refreshes /\ faults' \in 0..MaxFaults
      /\ \/ mode' = mode /\ timer' = timer
         \/ pub.purpose = "refresh" /\ mode' = "locking" /\ timer' = FALSE
  BY BoundsAreNaturals DEF TypeOK, Fail, PublicationEnds, StartLock
<1>3. ~session.pending /\ ~Retained
  BY <1>2 DEF Retention
<1>4. /\ session' \in Session
      /\ session'.working = session.working /\ session'.opened = session.opened
      /\ session'.base = session.base /\ session'.recovery = session.recovery
      /\ \/ session'.record = session.record
         \/ /\ pub.step # "preparing" /\ pub.purpose \in {"manual", "regular"}
            /\ session'.record = journal
            /\ journal # None /\ journal.pub # None => session'.pending
      /\ pub.purpose = "acquire" =>
           session'.dirty = session.dirty /\ session'.record = session.record
      /\ session'.dirty = session.dirty \/ session'.pending
  BY <1>1, <1>2, Pended DEF IInv, Fail, Fields
<1>5. ASSUME Retained'
      PROVE  /\ session'.pending /\ session'.record = journal
             /\ journal # None /\ journal.pub # None
             /\ Replayable(journal) /\ journal.pub.image = pub.image
             /\ pub.purpose \in {"manual", "regular"}
  BY <1>2, <1>3, <1>4, <1>5 DEF Retained, Journal
<1>6. TypeOK'
  <2>1. /\ mode' \in {"closed", "viewing", "editing", "locking", "flushing"}
        /\ timer' \in BOOLEAN /\ pub' \in Publications \cup {None}
        /\ manual' \in ManualSaves \cup {None} /\ regular' \in Texts \cup {None}
    BY <1>2 DEF TypeOK
  <2>. QED BY <1>2, <1>4, <2>1, Zenon DEF TypeOK
<1>7. Lines'
  BY <1>2 DEF Lines, Queued, Publishes, ManualWaits, RegularWaits, RegularFlushing
<1>8. Modes'
  BY <1>2, <1>4 DEF Modes, Publishes
<1>9. Budget'
  <2>1. /\ Owed' \in Nat /\ Owed \in Nat /\ Owed' <= Owed
    <3>1. RetainedOwes' => Unreplaced
      BY <1>2, <1>5 DEF RetainedOwes, Publication, Retained
    <3>2. CASE RetainedOwes'
      BY <1>2, <1>3, <1>5, <3>1, <3>2
         DEF RetainedOwes, Owed, ManualOwes, RegularOwes, Publishes,
             ManualWaits, RegularWaits
    <3>3. CASE ~RetainedOwes'
      BY <1>2, <3>3
         DEF Owed, ManualOwes, RegularOwes, Publishes, ManualWaits, RegularWaits
    <3>. QED BY <3>2, <3>3
  <2>. QED BY <1>1, <1>2, <2>1, BoundsAreNaturals DEF Budget, Fields
<1>10. Publication' /\ Journal'
  BY <1>2 DEF Publication, Journal, Replayable, Succeeds, Unreplaced
<1>11. Retention'
  BY <1>2, <1>5 DEF Retention, Retained, Replayable, Succeeds
<1>12. Bases'
  BY <1>2, <1>4 DEF Bases
<1>13. Live' => Live
  BY <1>2 DEF Live, Modes, Publishes
<1>14. Recovered'
  BY <1>2, <1>3, <1>4, <1>13 DEF Recovered, RecoveryIsCurrent, Live
<1>15. Working'
  BY <1>2, <1>4, <1>5, <1>13 DEF Working, Retained
<1>16. Order'
  BY <1>2, <1>5, <1>7, <1>13, OrderStays
     DEF ManualWaits, RegularWaits, RegularFlushing, Publishes, Retained
<1>17. Typed'
  BY <1>2, <1>4 DEF Typed, RecordTyped
<1>. QED BY <1>6, <1>7, <1>8, <1>9, <1>10, <1>11, <1>12, <1>14, <1>15, <1>16, <1>17

(* The publication fails after the session locked or ended. *)
LEMMA FailLockedKeeps ==
  ASSUME IInv, Fail, mode \notin {"viewing", "editing"}
  PROVE  IInv'
<1>. USE DEF IInv, Fail, bounds, PublicationEnds, Live
<1>1. Fields
  BY FieldsAreTyped
<1>2. faults' \in 0..MaxFaults
  BY BoundsAreNaturals DEF TypeOK, bounds
<1>3. TypeOK'
  BY <1>2, Zenon DEF TypeOK
<1>4. Recovered'
  BY DEF Recovered, RecoveryIsCurrent, Live
<1>5. Lines'
  BY DEF Lines, Queued, Publishes, ManualWaits, RegularWaits, RegularFlushing
<1>6. Modes'
  BY DEF Modes, Publishes
<1>7. Budget'
  BY <1>1, NothingMoreOwed DEF ManualOwes, RegularOwes, RetainedOwes,
       Retained, Unreplaced, Publishes, ManualWaits, RegularWaits,
       RegularFlushing
<1>8. Publication'
  BY DEF Publication, Unreplaced, Succeeds
<1>9. Journal'
  BY DEF Journal, Replayable, Succeeds
<1>10. Retention'
  BY DEF Retention, Retained, Replayable, Succeeds
<1>11. Bases'
  BY DEF Bases
<1>12. Working'
  BY DEF Working, Live, Retained
<1>13. Order'
  BY <1>1, <1>2, <1>5, NoValues, OrderStays DEF ManualWaits, RegularWaits,
       RegularFlushing, Publishes, Retained, Live
<1>14. Typed'
  BY DEF Typed, RecordTyped
<1>. QED BY <1>3, <1>4, <1>5, <1>6, <1>7, <1>8, <1>9, <1>10, <1>11, <1>12,
     <1>13, <1>14

(* The checkpoint fails. *)
LEMMA FailFlushKeeps ==
  ASSUME IInv, FailFlush
  PROVE  IInv'
<1>1. FlushEnds(FALSE) /\ flush # None
  BY DEF FailFlush
<1>2. /\ target' = target /\ late' = late /\ newest' = newest
      /\ refreshes' = refreshes /\ faults' \in 0..MaxFaults
      /\ journal' = journal /\ journal' \in Records \cup {None}
  BY BoundsAreNaturals DEF FailFlush, bounds, IInv, TypeOK
<1>. QED BY <1>1, <1>2, FlushEndsKeeps

(* A checkpoint that outlived its session fails. *)
LEMMA FailLateKeeps ==
  ASSUME IInv, FailLate
  PROVE  IInv'
<1>. USE DEF IInv, FailLate, chains, bounds
<1>1. Fields
  BY FieldsAreTyped
<1>2. faults' \in 0..MaxFaults
  BY BoundsAreNaturals DEF TypeOK, saves
<1>3. TypeOK'
  BY <1>2, Zenon DEF TypeOK
<1>4. Lines' /\ Budget' /\ Publication' /\ Journal' /\ Retention' /\
     Recovered' /\ Working' /\ Order'
  BY Unaffected
<1>5. Modes'
  BY DEF Modes, Publishes
<1>6. Bases'
  BY DEF Bases
<1>7. Typed'
  BY DEF Typed, RecordTyped
<1>. QED BY <1>3, <1>4, <1>5, <1>6, <1>7

(* A crash leaves the target and the journal. *)
LEMMA CrashKeeps ==
  ASSUME IInv, Crash
  PROVE  IInv'
<1>. USE DEF IInv, Crash, bounds, NoSession
<1>1. Fields
  BY FieldsAreTyped
<1>2. faults' \in 0..MaxFaults
  BY BoundsAreNaturals DEF TypeOK, saves
<1>3. session' \in Session
  BY BoundsAreNaturals DEF TypeOK, Session, NoSession, Texts, Revisions, Keys
<1>4. queue' \in Seq(Waiting) /\ Len(queue') <= 3
  BY BoundsAreNaturals DEF TypeOK, saves
<1>5. TypeOK'
  BY <1>2, <1>3, <1>4, Zenon DEF TypeOK
<1>6. Lines'
  <2>1. Len(queue') = 0
    OBVIOUS
  <2>. QED BY <2>1
              DEF Lines, Distinct, Queued, Waits, Publishes, ManualWaits,
                  RegularWaits, RegularFlushing
<1>7. Modes'
  BY DEF Modes, Publishes
<1>8. Budget'
  BY <1>1, NothingMoreOwed DEF ManualOwes, RegularOwes, RetainedOwes,
       Retained, Unreplaced, Publishes, ManualWaits, RegularWaits,
       RegularFlushing
<1>9. Publication'
  BY DEF Publication, Unreplaced, Succeeds
<1>10. Journal'
  BY DEF Journal, Replayable, Succeeds
<1>11. Retention'
  BY DEF Retention, Retained, Replayable, Succeeds
<1>12. Bases'
  BY <1>1, NoValues, BoundsAreNaturals DEF Bases, Fields
<1>13. Recovered'
  BY DEF Recovered, RecoveryIsCurrent, Live
<1>14. Working'
  BY DEF Working, Live, Retained
<1>15. Order'
  BY DEF Order, Live, ManualWaits, RegularWaits, RegularFlushing, Publishes,
       Queued, Waits, Before, InOrder, Ahead, Retained
<1>16. Typed'
  BY <1>1, NoValues, BoundsAreNaturals DEF Typed, RecordTyped, Fields
<1>. QED BY <1>5, <1>6, <1>7, <1>8, <1>9, <1>10, <1>11, <1>12, <1>13, <1>14,
     <1>15, <1>16

-----------------------------------------------------------------------------
(* The invariant, and what follows from it *)

(* Nothing is open or under way at first. *)
LEMMA InitKeeps == Init => IInv
<1>. SUFFICES ASSUME Init PROVE IInv
  OBVIOUS
<1>1. /\ target = [text |-> 0, rev |-> 0, sealed |-> TRUE]
      /\ journal = None /\ mode = "closed" /\ session = NoSession
      /\ timer = FALSE /\ flush = None /\ queue = <<>> /\ pub = None
      /\ manual = None /\ regular = None /\ late = None
      /\ journalSaved = TRUE /\ newest = 0 /\ refreshes = 0 /\ faults = 0
  BY DEF Init
<1>2. target \in Images /\ newest \in Texts
  BY <1>1, BoundsAreNaturals DEF Images, Texts, Revisions
<1>3. /\ session \in Session /\ session.base = 0 /\ session.opened = 0
      /\ session.working = 0 /\ session.working # Undefined
      /\ session.recovery = None /\ session.record = None
      /\ session.pending = FALSE
  BY <1>1, BoundsAreNaturals, NoValues
     DEF NoSession, Session, Texts, Revisions, Keys
<1>4. /\ queue \in Seq(Waiting) /\ Len(queue) = 0 /\ Distinct(queue)
      /\ \A p : ~Queued(p)
  BY <1>1 DEF Distinct, Queued, Waits
<1>5. TypeOK
  <2>1. refreshes \in 0..MaxRefreshes /\ faults \in 0..MaxFaults
    BY <1>1, BoundsAreNaturals
  <2>2. Len(queue) <= 3
    BY <1>4
  <2>3. /\ mode \in {"closed", "viewing", "editing", "locking", "flushing"}
        /\ timer \in BOOLEAN /\ journalSaved \in BOOLEAN
    BY <1>1
  <2>. QED BY <1>1, <1>2, <1>3, <1>4, <2>1, <2>2, <2>3, Zenon DEF TypeOK
<1>6. Lines /\ Modes
  BY <1>1, <1>4
     DEF Lines, Modes, ManualWaits, RegularWaits, RegularFlushing, Publishes
<1>7. Budget
  BY <1>1, <1>3, BoundsAreNaturals
     DEF Budget, Owed, ManualOwes, RegularOwes, RetainedOwes, Retained,
         ManualWaits, RegularWaits, Publishes
<1>8. Publication /\ Journal /\ Retention /\ Bases
  BY <1>1, <1>3 DEF Publication, Journal, Retention, Retained, Bases
<1>9. Recovered /\ Working /\ Order
  BY <1>1 DEF Recovered, RecoveryIsCurrent, Working, Order, Live
<1>10. Typed
  BY <1>1, <1>3 DEF Typed
<1>. QED BY <1>5, <1>6, <1>7, <1>8, <1>9, <1>10 DEF IInv

(* What the user does keeps the invariant. *)
LEMMA UserKeeps ==
  ASSUME IInv, User
  PROVE  IInv'
<1>1. CASE Open
  <2>1. CASE ~Readable
    BY <1>1, <2>1, OpenUnreadableKeeps
  <2>2. CASE Readable /\ Interrupted
    BY <1>1, <2>2, OpenInterruptedKeeps
  <2>3. CASE Readable /\ ~Interrupted
    BY <1>1, <2>3, OpenPlainKeeps
  <2>. QED BY <2>1, <2>2, <2>3
<1>2. CASE Acquire
  BY <1>2, AcquireKeeps
<1>3. CASE DiscardWork
  BY <1>3, DiscardWorkKeeps
<1>4. CASE Close
  BY <1>4, CloseKeeps
<1>5. CASE Edit
  BY <1>5, EditKeeps
<1>6. CASE SubmitManual
  BY <1>6, SubmitManualQueuesKeeps, SubmitManualDrainsKeeps
<1>7. CASE Retry
  BY <1>7, RetryKeeps
<1>8. CASE Lock
  BY <1>8, LockKeeps
<1>. QED BY <1>1, <1>2, <1>3, <1>4, <1>5, <1>6, <1>7, <1>8 DEF User

(* Timers and the user's saves keep the invariant. *)
LEMMA TimersKeep ==
  ASSUME IInv, Timers
  PROVE  IInv'
<1>1. CASE CheckpointDue
  BY <1>1, CheckpointDueKeeps
<1>2. CASE RegularDue
  BY <1>2, RegularDueKeeps
<1>3. CASE RefreshDue
  BY <1>3, RefreshDueKeeps
<1>. QED BY <1>1, <1>2, <1>3 DEF Timers

(* Checkpoints keep the invariant. *)
LEMMA CheckpointingKeeps ==
  ASSUME IInv, Checkpointing
  PROVE  IInv'
<1>1. CASE CaptureFlush
  BY <1>1, CaptureOpensKeeps, CaptureEndsKeeps
<1>2. CASE LandFlush
  BY <1>2, LandFlushKeeps
<1>3. CASE LandLate
  BY <1>3, LandLateKeeps
<1>. QED BY <1>1, <1>2, <1>3 DEF Checkpointing

(* Publications and what follows them keep the invariant. *)
LEMMA PublishingKeeps ==
  ASSUME IInv, Publishing
  PROVE  IInv'
<1>1. CASE BeginRefresh
  BY <1>1, BeginRefreshStartsKeeps, BeginRefreshLocksKeeps
<1>2. CASE BeginManual
  BY <1>2, BeginManualKeeps
<1>3. CASE BeginRegular
  BY <1>3, BeginRegularKeeps
<1>4. CASE Refuse
  BY <1>4, RefuseKeeps
<1>5. CASE WriteRecord
  BY <1>5, WriteRecordKeeps
<1>6. CASE Replace
  BY <1>6, ReplaceKeeps
<1>7. CASE Cleanup
  BY <1>7, CleanupOnKeeps, CleanupEndsKeeps
<1>8. CASE Acquired
  BY <1>8, AcquiredKeeps
<1>9. CASE Refreshed
  BY <1>9, RefreshedKeeps
<1>10. CASE ManualPublished
  BY <1>10, ManualPublishedLiveKeeps, ManualPublishedLateKeeps
<1>11. CASE AdoptManual
  BY <1>11, AdoptManualLiveKeeps, AdoptManualLateKeeps
<1>12. CASE RegularPublished
  BY <1>12, RegularPublishedLiveKeeps, RegularPublishedLateKeeps
<1>. QED
  BY <1>1, <1>2, <1>3, <1>4, <1>5, <1>6, <1>7, <1>8, <1>9, <1>10, <1>11, <1>12
     DEF Publishing

(* Locks, failures and crashes keep the invariant. *)
LEMMA FaultsKeep ==
  ASSUME IInv, Faults
  PROVE  IInv'
<1>1. CASE Fail
  BY <1>1, FailKeeps, FailLockedKeeps
<1>2. CASE FailFlush
  BY <1>2, FailFlushKeeps
<1>3. CASE FailLate
  BY <1>3, FailLateKeeps
<1>4. CASE Crash
  BY <1>4, CrashKeeps
<1>. QED BY <1>1, <1>2, <1>3, <1>4 DEF Faults

(* The invariant is inductive. *)
LEMMA NextKeeps == IInv /\ [Next]_vars => IInv'
<1>. SUFFICES ASSUME IInv, [Next]_vars PROVE IInv'
  OBVIOUS
<1>1. CASE Next
  <2>1. CASE LockFlush
    BY <2>1, LockFlushesKeeps, LockEndsKeeps
  <2>. QED
    BY <1>1, <2>1, UserKeeps, TimersKeep, CheckpointingKeeps,
       PublishingKeeps, FaultsKeep DEF Next
<1>2. CASE UNCHANGED vars
  <2>1. TypeOK'
    BY <1>2 DEF vars, chains, saves, bounds, IInv, TypeOK
  <2>. QED BY <1>2, <2>1, Unaffected DEF vars, chains, saves, bounds, IInv
<1>. QED BY <1>1, <1>2

(* The inductive invariant holds throughout. *)
THEOREM Invariance == Spec => []IInv
BY InitKeeps, NextKeeps, PTL DEF Spec

(* Every variable keeps its type, for every bound on texts, revisions, lease   *)
(* refreshes and faults: no save runs past the bound on revisions, and what is *)
(* queued is never queued twice.                                               *)
THEOREM TypeCorrect == Spec => []TypeOK
<1>1. IInv => TypeOK
  BY DEF IInv
<1>. QED BY <1>1, Invariance, PTL

(* The work that openDocument offers to recover is never older than the       *)
(* document it is offered over: comparing the revision it is based on rejects *)
(* whatever a completed save has outdated.                                    *)
THEOREM RecoveryStaysCurrent == Spec => []RecoveryIsCurrent
<1>1. IInv => RecoveryIsCurrent
  BY DEF IInv, Recovered
<1>. QED BY <1>1, Invariance, PTL

(* Only a publication, its completion after a crash, or its retry puts *)
(* something in the target: what is there, or its successor.           *)
LEMMA TargetAdvances ==
  ASSUME IInv, [Next]_vars
  PROVE  target'.text >= target.text
<1>1. Fields
  BY FieldsAreTyped DEF IInv
<1>2. SUFFICES ASSUME target' # target PROVE target'.text >= target.text
  BY <1>1 DEF Fields
<1>3. \/ Open /\ Readable /\ Interrupted /\ target' = journal.pub.image
      \/ Replace
      \/ Retry
  <2>1. Next
    BY <1>2 DEF vars
  <2>2. \/ User \/ Timers \/ Checkpointing
        \/ Publishing \/ LockFlush \/ Faults
    BY <2>1 DEF Next
  <2>3. ~Timers /\ ~Checkpointing /\ ~LockFlush /\ ~Faults
    BY <1>2 DEF Timers, CheckpointDue, RegularDue, RefreshDue,
         Checkpointing, CaptureFlush, LandFlush, LandLate, LockFlush,
         Faults, Fail, FailFlush, FailLate, Crash
  <2>4. Publishing => Replace
    BY <1>2 DEF Publishing, BeginRefresh, BeginManual, BeginRegular, Refuse,
         WriteRecord, Cleanup, Acquired, Refreshed, ManualPublished,
         AdoptManual, RegularPublished
  <2>5. User => \/ Open /\ Readable /\ Interrupted /\ target' = journal.pub.image
                \/ Retry
    BY <1>2 DEF User, Open, Acquire, DiscardWork, Close, Edit, SubmitManual, Lock
  <2>. QED BY <2>2, <2>3, <2>4, <2>5
<1>4. CASE Open /\ Readable /\ Interrupted /\ target' = journal.pub.image
  BY <1>1, <1>2, <1>4 DEF IInv, Journal, Interrupted, Replayable, Succeeds, Fields
<1>5. CASE Replace
  BY <1>1, <1>2, <1>5 DEF IInv, Publication, Replace, Unreplaced, Purposes,
       Succeeds, Fields
<1>6. CASE Retry
  BY <1>1, <1>2, <1>6
     DEF IInv, Retention, Retained, Retry, Replayable, Succeeds, Fields
<1>. QED BY <1>3, <1>4, <1>5, <1>6

(* No step, crash or retry ever puts an older text in the container: whatever *)
(* the order in which saves, refreshes, retries and recoveries publish.       *)
THEOREM NeverRegresses == Spec => TargetNeverRegresses
<1>1. IInv /\ [Next]_vars => [target'.text >= target.text]_vars
  BY TargetAdvances
<1>. QED BY <1>1, Invariance, PTL DEF Spec, TargetNeverRegresses

-----------------------------------------------------------------------------
(* A lock loses no text *)

(* A clean session has nothing that is not in the target.  The manual save *)
(* that makes it clean puts its own text there, and the checkpoint that    *)
(* ends a lock takes the working copy as it stands.                        *)
Clean == Live /\ ~session.dirty /\ ~session.pending
CleanIsSaved ==
  /\ Publishes("manual") => pub.image.text = manual.text
  /\ manual # None /\ manual.step = "adopting" => manual.text <= target.text
  /\ flush # None /\ flush.owner = "lock" =>
       /\ mode = "flushing"
       /\ flush.step = "writing" => flush.text = session.working
  /\ Clean /\ session.working # Undefined => session.working <= target.text

(* What keeps a clean session saved: the target is not set back, no other *)
(* manual save starts, the lock's checkpoint is left alone, and what is   *)
(* clean was so before or is in the target.                               *)
LEMMA CleanStays ==
  ASSUME TypeOK, CleanIsSaved, target' \in Images, target'.text >= target.text,
         manual' = None \/ manual' = manual,
         Publishes("manual")' =>
           Publishes("manual") /\ pub'.image = pub.image /\ manual' = manual,
         \/ flush' = None
         \/ flush' = flush /\ mode' = mode /\ session'.working = session.working
         \/ flush' = flush /\ flush.owner # "lock",
         Clean' => \/ Clean /\ session'.working = session.working
                   \/ session'.working = Undefined
                   \/ session'.working <= target'.text
  PROVE  CleanIsSaved'
<1>1. Fields /\ target'.text \in Nat
  BY FieldsAreTyped, BoundsAreNaturals DEF Images, Texts
<1>2. /\ Publishes("manual")' => pub'.image.text = manual'.text
      /\ manual' # None /\ manual'.step = "adopting" => manual'.text <= target'.text
  BY <1>1 DEF CleanIsSaved, Fields
<1>3. flush' # None /\ flush'.owner = "lock" =>
        /\ mode' = "flushing"
        /\ flush'.step = "writing" => flush'.text = session'.working
  BY DEF CleanIsSaved
<1>4. Clean' /\ session'.working # Undefined => session'.working <= target'.text
  BY <1>1 DEF CleanIsSaved, Fields
<1>. QED BY <1>2, <1>3, <1>4 DEF CleanIsSaved

(* The checkpoint that ends changes neither text nor what is clean. *)
LEMMA FlushEndsClean ==
  ASSUME TypeOK, CleanIsSaved, NEW ok \in BOOLEAN, flush # None, FlushEnds(ok),
         target' = target
  PROVE  CleanIsSaved'
<1>1. /\ pub' = None <=> pub = None
      /\ pub # None => pub'.purpose = pub.purpose /\ pub'.image = pub.image
      /\ \/ session' = session /\ mode' = mode
         \/ mode' = "closed"
  <2>1. CASE flush.owner = "lock"
    BY <2>1, SessionEnded DEF FlushEnds
  <2>2. CASE flush.owner # "lock"
    BY <2>2 DEF FlushEnds
  <2>. QED BY <2>1, <2>2
<1>2. /\ manual' = None <=> manual = None
      /\ manual # None => /\ manual'.text = manual.text
                          /\ manual'.step = "adopting" => manual.step = "adopting"
  <2>1. \/ manual' = manual
        \/ manual # None /\ manual' = [manual EXCEPT !.step = "queued"]
    BY DEF FlushEnds
  <2>. QED BY <2>1, NoValues DEF TypeOK, ManualSaves
<1>3. flush' = None
  BY DEF FlushEnds
<1>. QED BY <1>1, <1>2, <1>3 DEF CleanIsSaved, Publishes, Clean, Live

(* The step lemmas have the invariant after the step to hand. *)
LEMMA CleanStepKeeps ==
  ASSUME IInv, IInv', CleanIsSaved, Next
  PROVE  CleanIsSaved'
<1>1. Fields /\ TypeOK /\ TypeOK' /\ Lines /\ Modes /\ Publication
  BY FieldsAreTyped DEF IInv
<1>2. target' \in Images /\ target'.text >= target.text
  BY <1>1, TargetAdvances DEF TypeOK
<1>3. CASE Open
  BY <1>1, <1>2, <1>3, CleanStays
     DEF Open, Quiet, chains, saves, Clean, Live, Publishes
<1>4. CASE Acquire
  <2>1. pub' # None /\ pub'.purpose = "acquire"
    BY <1>1, <1>4, LeaseStarted DEF Acquire, Purposes
  <2>. QED BY <1>1, <1>2, <1>4, <2>1, CleanStays
              DEF Acquire, saves, Publishes, Clean, Live
<1>5. CASE DiscardWork \/ Close
  BY <1>1, <1>2, <1>5, CleanStays
     DEF DiscardWork, Close, chains, saves, Publishes, Clean, Live, Modes
<1>6. CASE Edit
  <2>1. session'.dirty
    BY <1>1, <1>6 DEF Edit, TypeOK, Session
  <2>2. flush # None => flush.owner # "lock"
    BY <1>6 DEF Edit, CleanIsSaved
  <2>. QED BY <1>1, <1>2, <1>6, <2>1, <2>2, CleanStays
              DEF Edit, saves, Publishes, Clean
<1>7. CASE SubmitManual
  <2>1. ~Publishes("manual")
    BY <1>1, <1>7 DEF SubmitManual, Lines
  <2>2. manual' # None => manual'.step # "adopting"
    BY <1>7 DEF SubmitManual
  <2>. QED BY <1>7, <2>1, <2>2
           DEF SubmitManual, CleanIsSaved, Publishes, Clean, Live
<1>8. CASE Retry
  <2>1. /\ session'.working = session.working /\ ~session'.pending
        /\ target'.text = session.record.pub.image.text
        /\ session.working # target'.text => session'.dirty
    BY <1>1, <1>8 DEF Retry, TypeOK, Session
  <2>2. Clean' => session'.working <= target'.text
    BY <1>2, <2>1, BoundsAreNaturals DEF Clean, Images, Texts
  <2>. QED BY <1>1, <1>2, <1>8, <2>1, <2>2, CleanStays DEF Retry, saves, Publishes
<1>9. CASE Lock
  <2>1. flush # None => flush.owner # "lock"
    BY <1>9 DEF Lock, CleanIsSaved
  <2>. QED BY <1>1, <1>2, <1>9, <2>1, CleanStays
           DEF Lock, StartLock, saves, Publishes, Clean, Live
<1>10. CASE CheckpointDue \/ RegularDue
  <2>1. flush' # None => flush'.owner # "lock"
    BY <1>10 DEF CheckpointDue, RegularDue
  <2>. QED BY <1>10, <2>1
              DEF CheckpointDue, RegularDue, saves, CleanIsSaved, Publishes,
                  Clean, Live
<1>11. CASE RefreshDue
  BY <1>1, <1>2, <1>11, CleanStays DEF RefreshDue, saves, Publishes, Clean, Live
<1>12. CASE CaptureFlush
  <2>1. CASE FlushEnds(FALSE)
    BY <1>1, <1>12, <2>1, FlushEndsClean DEF CaptureFlush
  <2>2. CASE ~FlushEnds(FALSE)
    <3>1. /\ flush' = [step |-> "writing", owner |-> flush.owner,
                       text |-> session.working, base |-> session.base,
                       key |-> session.key]
          /\ UNCHANGED <<target, mode, session, pub, manual>>
      BY <1>12, <2>2 DEF CaptureFlush
    <3>. QED BY <1>12, <3>1 DEF CaptureFlush, CleanIsSaved, Publishes, Clean, Live
  <2>. QED BY <2>1, <2>2
<1>13. CASE LandFlush
  BY <1>1, <1>13, FlushEndsClean DEF LandFlush
<1>14. CASE FailFlush
  BY <1>1, <1>14, FlushEndsClean DEF FailFlush
<1>15. CASE LandLate \/ FailLate
  BY <1>1, <1>2, <1>15, CleanStays
     DEF LandLate, FailLate, chains, Publishes, Clean, Live
<1>16. CASE BeginRefresh
  <2>1. pub' = None \/ (pub' # None /\ pub'.purpose = "refresh")
    BY <1>1, <1>16, LeaseStarted DEF BeginRefresh, Purposes
  <2>2. flush # None => flush.owner # "lock"
    BY <1>16 DEF BeginRefresh, CleanIsSaved
  <2>. QED BY <1>1, <1>2, <1>16, <2>1, <2>2, CleanStays
           DEF BeginRefresh, StartLock, saves, Publishes, Clean, Live
<1>17. CASE BeginManual
  <2>1. Queued("manual")
    BY <1>1, <1>17, Dequeued DEF BeginManual, Lines, Fields
  <2>2. manual # None /\ manual.step = "queued"
    BY <1>1, <2>1 DEF Lines, ManualWaits
  <2>3. pub'.image.text = manual.text
    BY <1>17 DEF BeginManual, Start
  <2>. QED BY <1>17, <2>2, <2>3
           DEF BeginManual, saves, CleanIsSaved, Publishes, Clean, Live
<1>18. CASE BeginRegular
  <2>1. pub'.purpose = "regular"
    BY <1>18 DEF BeginRegular, Start
  <2>. QED BY <1>1, <1>2, <1>18, <2>1, CleanStays
           DEF BeginRegular, saves, Publishes, Clean, Live
<1>19. CASE Refuse
  BY <1>1, <1>2, <1>19, CleanStays DEF Refuse, Publishes, Clean, Live
<1>20. CASE WriteRecord \/ Replace
  <2>1. pub'.purpose = pub.purpose /\ pub'.image = pub.image /\ pub # None
    BY <1>1, <1>20 DEF WriteRecord, Replace, TypeOK, Publications
  <2>. QED BY <1>1, <1>2, <1>20, <2>1, CleanStays
           DEF WriteRecord, Replace, saves, Publishes, Clean, Live
<1>21. CASE Cleanup
  <2>1. \/ pub' = None /\ (manual' = None \/ manual' = manual)
        \/ /\ pub # None /\ pub'.purpose = pub.purpose
           /\ pub'.image = pub.image /\ manual' = manual
    BY <1>1, <1>21 DEF Cleanup, PublicationEnds, TypeOK, Publications
  <2>. QED BY <1>1, <1>2, <1>21, <2>1, CleanStays
              DEF Cleanup, Publishes, Clean, Live
<1>22. CASE Acquired
  <2>1. mode = "viewing"
    BY <1>1, <1>22 DEF Acquired, Modes, Publishes
  <2>2. flush = None /\ manual = None /\ session.opened = target.text
    BY <1>1, <2>1 DEF Modes
  <2>3. Clean' => session'.working = target.text
    BY <1>1, <1>22, <2>2 DEF Acquired, Clean, TypeOK, Session
  <2>. QED BY <1>1, <1>2, <1>22, <2>2, <2>3, CleanStays
           DEF Acquired, saves, Publishes, Fields
<1>23. CASE Refreshed
  BY <1>1, <1>2, <1>23, CleanStays DEF Refreshed, saves, Publishes, Clean, Live
<1>24. CASE ManualPublished
  <2>1. CASE Live
    <3>1. /\ manual # None /\ manual' = [manual EXCEPT !.step = "adopting"]
          /\ pub' = None /\ target' = target /\ mode' = mode /\ flush' = flush
          /\ session'.working = session.working
          /\ session'.dirty = session.dirty /\ session'.pending = session.pending
      BY <1>1, <1>24, <2>1 DEF ManualPublished, Lines, Publishes, TypeOK, Session
    <3>2. manual'.text = manual.text
      BY <1>1, <3>1 DEF TypeOK, ManualSaves
    <3>3. manual.text = target.text
      BY <1>1, <1>24
         DEF ManualPublished, CleanIsSaved, Publishes, Publication,
             Unreplaced
    <3>. QED BY <1>1, <3>1, <3>2, <3>3
                DEF CleanIsSaved, Publishes, Clean, Live, Fields
  <2>2. CASE ~Live
    BY <1>1, <1>2, <1>24, <2>2, CleanStays
       DEF ManualPublished, Publishes, Clean, Live
  <2>. QED BY <2>1, <2>2
<1>25. CASE AdoptManual
  <2>1. CASE Live
    <3>1. /\ session'.working = session.working
          /\ session.working # manual.text => session'.dirty
          /\ manual' = None /\ target' = target /\ mode' = mode /\ flush' = flush
          /\ pub' = pub /\ manual # None
      BY <1>1, <1>25, <2>1 DEF AdoptManual, Adopt, TypeOK, Session
    <3>2. manual.text <= target.text /\ ~Publishes("manual")
      BY <1>1, <1>25 DEF AdoptManual, CleanIsSaved, Lines
    <3>. QED BY <1>1, <1>2, <3>1, <3>2, CleanStays DEF Publishes, Clean
  <2>2. CASE ~Live
    <3>1. ~Publishes("manual")
      BY <1>1, <1>25 DEF AdoptManual, Lines
    <3>. QED BY <1>1, <1>2, <1>25, <2>2, <3>1, CleanStays
             DEF AdoptManual, Publishes, Clean, Live
  <2>. QED BY <2>1, <2>2
<1>26. CASE RegularPublished
  <2>1. session'.working = session.working
    BY <1>1, <1>26 DEF RegularPublished, TypeOK, Session
  <2>2. Clean' => Clean
    BY <1>1, <1>26 DEF RegularPublished, Clean, Live, TypeOK, Session
  <2>. QED BY <1>1, <1>2, <1>26, <2>1, <2>2, CleanStays
              DEF RegularPublished, Publishes
<1>27. CASE LockFlush
  <2>1. CASE NeedsCheckpoint
    <3>1. /\ flush' = [step |-> "reading", owner |-> "lock"] /\ mode' = "flushing"
          /\ UNCHANGED <<target, session, pub, manual>>
      BY <1>27, <2>1 DEF LockFlush, saves
    <3>. QED BY <1>27, <3>1 DEF LockFlush, CleanIsSaved, Publishes, Clean, Live
  <2>2. CASE ~NeedsCheckpoint
    <3>1. /\ EndSession /\ flush' = flush /\ manual' = manual
          /\ mode = "locking"
      BY <1>27, <2>2 DEF LockFlush, saves
    <3>2. flush # None => flush.owner # "lock"
      BY <3>1 DEF CleanIsSaved
    <3>. QED BY <1>1, <1>2, <3>1, <3>2, SessionEnded, CleanStays
                DEF Publishes, Clean, Live
  <2>. QED BY <2>1, <2>2
<1>28. CASE Fail
  <2>1. /\ pub # None /\ pub' = None /\ flush' = flush /\ target' = target
        /\ manual' = None \/ manual' = manual
    BY <1>28 DEF Fail, PublicationEnds
  <2>2. CASE mode \in {"viewing", "editing"}
    <3>1. ~session.pending /\ pub.purpose \in Purposes
      BY <1>1, <2>1 DEF IInv, Retention, Fields
    <3>2. Pend(pub.step # "preparing")
      BY <1>28, <2>2 DEF Fail
    <3>3. /\ session'.working = session.working
          /\ session'.dirty = session.dirty \/ session'.pending
      BY <1>1, <2>1, <3>1, <3>2, Pended
    <3>4. Live' => Live
      BY <1>1, <1>28, <2>1, <2>2 DEF Fail, StartLock, Live, Modes, Publishes
    <3>5. flush # None => flush.owner # "lock"
      BY <2>2 DEF CleanIsSaved
    <3>. QED BY <1>1, <1>2, <2>1, <3>1, <3>3, <3>4, <3>5, CleanStays
                DEF Publishes, Clean
  <2>3. CASE mode \notin {"viewing", "editing"}
    BY <1>1, <1>2, <1>28, <2>1, <2>3, CleanStays DEF Fail, Publishes, Clean, Live
  <2>. QED BY <2>2, <2>3
<1>29. CASE Crash
  BY <1>1, <1>2, <1>29, CleanStays DEF Crash, Publishes, Clean, Live
<1>. QED
  BY <1>3, <1>4, <1>5, <1>6, <1>7, <1>8, <1>9, <1>10, <1>11, <1>12, <1>13, <1>14,
     <1>15, <1>16, <1>17, <1>18, <1>19, <1>20, <1>21, <1>22, <1>23, <1>24, <1>25,
     <1>26, <1>27, <1>28, <1>29
     DEF Next, User, Timers, Checkpointing, Publishing, Faults

(* Nothing is saved or open at first. *)
LEMMA InitClean == Init => CleanIsSaved
BY DEF Init, CleanIsSaved, Publishes, Clean, Live

(* A clean session is a saved one, throughout. *)
LEMMA CleanIsInvariant == Spec => []CleanIsSaved
<1>1. IInv /\ IInv' /\ CleanIsSaved /\ [Next]_vars => CleanIsSaved'
  <2>1. ASSUME CleanIsSaved, UNCHANGED vars PROVE CleanIsSaved'
    BY <2>1 DEF vars, chains, saves, CleanIsSaved, Publishes, Clean, Live
  <2>. QED BY <2>1, CleanStepKeeps
<1>. QED BY <1>1, InitClean, Invariance, PTL DEF Spec

(* A lock ends by its last checkpoint, or without one when nothing is unsaved. *)
LEMMA LockKeepsText ==
  ASSUME IInv, CleanIsSaved, Next, Locked, journalSaved', ~session.pending
  PROVE  WorkHeld
<1>1. Fields /\ TypeOK
  BY FieldsAreTyped DEF IInv
<1>2. \/ LandFlush /\ flush.owner = "lock"
      \/ LockFlush /\ ~NeedsCheckpoint
  <2>1. faults' # faults + 1
    BY <1>1 DEF Locked, TypeOK
  <2>2. mode \in {"locking", "flushing"} /\ mode' = "closed"
    BY DEF Locked
  <2>3. ~User /\ ~Timers /\ ~Publishing
    BY <2>2
       DEF User, Open, Acquire, DiscardWork, Close, Edit, SubmitManual,
           Retry, Lock, Timers, CheckpointDue, RegularDue, RefreshDue,
           Publishing, BeginRefresh, BeginManual, BeginRegular, Refuse,
           WriteRecord, Replace, Cleanup, Acquired, Refreshed,
           ManualPublished, AdoptManual, RegularPublished
  <2>4. ~LandLate /\ ~Faults
    BY <2>1, <2>2 DEF LandLate, Faults, Fail, FailFlush, FailLate, Crash
  <2>5. Checkpointing => LandFlush /\ flush.owner = "lock"
    BY <2>2, <2>4 DEF Checkpointing, CaptureFlush, LandFlush, FlushEnds
  <2>6. LockFlush => ~NeedsCheckpoint
    BY <2>2 DEF LockFlush, NeedsCheckpoint
  <2>. QED BY <2>3, <2>4, <2>5, <2>6 DEF Next
<1>3. CASE LandFlush /\ flush.owner = "lock"
  <2>1. /\ journal' = [text |-> flush.text, base |-> flush.base, key |-> flush.key,
                       pub |-> None]
        /\ flush.text \in Texts /\ flush.base \in Revisions /\ flush.key \in Keys
        /\ flush.text = session.working /\ target' = target
    BY <1>1, <1>3 DEF LandFlush, Work, CleanIsSaved, TypeOK, Flushes
  <2>2. journal' \in Records
    BY <2>1 DEF Records
  <2>3. journal' # None /\ journal'.text = session.working
    BY <2>1, <2>2, NoValues
  <2>. QED BY <1>1, <2>1, <2>3 DEF WorkHeld, Held, Fields
<1>4. CASE LockFlush /\ ~NeedsCheckpoint
  <2>1. Clean /\ target' = target
    BY <1>4 DEF LockFlush, NeedsCheckpoint, Clean, Live
  <2>. QED BY <1>1, <1>4, <2>1 DEF CleanIsSaved, WorkHeld, Held, Fields, LockFlush
<1>. QED BY <1>2, <1>3, <1>4

(* When a lock ends the session reporting its journal saved, and no publication *)
(* was pending, the editor's text is in the container or in the journal         *)
(* (#finishLock and #flushActive).                                              *)
THEOREM LocksLoseNoText == Spec => LockFlushesWork
<1>1. IInv /\ CleanIsSaved /\ [Next]_vars
        => [Locked /\ journalSaved' /\ ~session.pending => WorkHeld]_vars
  BY LockKeepsText
<1>. QED BY <1>1, Invariance, CleanIsInvariant, PTL DEF Spec, LockFlushesWork

(* Under the host's locks every step is one of WorkRecovery, or of the barrier *)
(* alone: a lock that runs as exclusive work (lockActive) only holds steps     *)
(* back, so that whatever is proved above holds under it.                      *)
THEOREM HostLocksImplement == HostSpec => Spec
<1>1. HostInit => Init
  BY DEF HostInit
<1>2. ASSUME [HostNext]_hostVars PROVE [Next]_vars
  <2>1. CASE RequestLock \/ LeaveLock \/ UNCHANGED hostVars
    BY <2>1 DEF RequestLock, LeaveLock, hostVars
  <2>2. CASE EnterLock
    BY <2>2 DEF EnterLock, Next, User
  <2>3. CASE HostUser
    BY <2>3 DEF HostUser, Next, User
  <2>4. CASE HostPublishing
    BY <2>4 DEF HostPublishing, Admitted, PublicationStep, Next, Publishing
  <2>5. CASE HostTimers \/ HostCheckpointing \/ HostLockFlush \/ HostFaults
    BY <2>5 DEF HostTimers, HostCheckpointing, HostLockFlush, HostFaults,
         Next, Faults
  <2>. QED BY <1>2, <2>1, <2>2, <2>3, <2>4, <2>5 DEF HostNext
<1>. QED BY <1>1, <1>2, PTL DEF HostSpec, Spec
=============================================================================
