-------------------------- MODULE ContainerProofs --------------------------
(***************************************************************************)
(* Proofs about Container, for every set of slots, rights, texts, lease    *)
(* sessions and every bound.                                               *)
(***************************************************************************)
EXTENDS Container, TLAPS

-----------------------------------------------------------------------------
(* The inductive invariant *)

\* An open container has a confirmed image, a closed one has nothing.
Lifetime ==
  /\ state.open <=> committed # None
  /\ ~state.open =>
       /\ state = ClosedState /\ unlocked = None /\ target = None
       /\ session = None /\ ~raised
  /\ state.unlocked => unlocked # None
  /\ state.slot # None <=> state.unlocked
  /\ state.slot # None => state.slot = unlocked.slot

\* The slot that was authenticated is one of the confirmed image.
ActiveSlot ==
  unlocked # None =>
    /\ state.open /\ text \in Texts
    /\ unlocked.slot \in Present(committed)
    /\ unlocked.invited = (unlocked.slot \in committed.invited)

\* An observed target belongs to the slot it was observed for.
Overlay ==
  /\ target # None <=> state.overlay # None
  /\ state.overlay # None => unlocked # None /\ state.overlay.slot = unlocked.slot
  /\ state.attention = "reauthenticate" => state.overlay # None

\* What a candidate is, and that it still fits the session it was prepared for.
KindOf(change) ==
  CASE change \in {"save", "discard"} -> {"save"}
    [] change = "slot" -> {"slot_change"}
    [] change = "lease" -> {"lease_change"}
    [] change = "compaction" -> {"compaction"}
    [] change = "attempt" -> Attempts
    [] OTHER -> {"activity_outcome"}
CandidateFits ==
  candidate # None =>
    /\ unlocked # None
    /\ state.kind \in KindOf(candidate.change)
    /\ candidate.removes => candidate.change = "slot"
    /\ ~candidate.removes => unlocked.slot \in Present(candidate.image)
    /\ candidate.change # "slot" =>
         /\ candidate.image.rights = committed.rights
         /\ candidate.image.invited = committed.invited
    /\ candidate.change = "lease" => ~unlocked.invited
    /\ candidate.change = "lease" /\ candidate.session # None => state.unlocked
    /\ candidate.change # "lease" => state.unlocked
    /\ candidate.change = "outcome" => candidate.image.attempt = None
    /\ written => disk = candidate.image

\* Why a raised decision still blocks: it is undecided or a target overlays it.
StillRaised ==
  raised => state.attention \in {"conflict", "target_replaced"}
              \/ state.overlay # None

OutcomeKept == activity # None /\ activity.done # "unknown" => journal # "nothing"

IInv ==
  /\ TypeOK /\ EditingAuthorized /\ OnePublication /\ NeverWedged /\ HostInStep
  /\ ConfirmedIsTarget
  /\ Lifetime /\ ActiveSlot /\ Overlay /\ CandidateFits /\ StillRaised /\ OutcomeKept

-----------------------------------------------------------------------------
(* Transitions *)

LEMMA ClosedFields ==
  /\ ClosedState \in ContainerStates
  /\ ClosedState.open = FALSE /\ ClosedState.unlocked = FALSE
  /\ ClosedState.slot = None /\ ClosedState.overlay = None
  /\ ClosedState.editing = FALSE
  /\ ClosedState.attention = "none" /\ ClosedState.phase = "idle"
  /\ ClosedState.kind = None /\ ClosedState.operation = None
BY DEF ClosedState, ContainerStates, Leases, Attentions, Phases, Permissions

LEMMA BeginFields ==
  ASSUME NEW s \in ContainerStates, NEW n \in Nat, NEW k \in Kinds
  PROVE  LET b == Begin(s, n, k)
         IN /\ b \in ContainerStates
            /\ b.phase = "publishing" /\ b.operation = n /\ b.kind = k
            /\ b.open = s.open /\ b.unlocked = s.unlocked /\ b.slot = s.slot
            /\ b.rights = s.rights /\ b.overlay = s.overlay /\ b.lease = s.lease
            /\ b.editing = s.editing /\ b.attention = s.attention
BY DEF Begin, ContainerStates, Phases

-----------------------------------------------------------------------------
(* Preparing a candidate *)

LEMMA ProposeStep ==
  ASSUME IInv,
         NEW change \in Changes, NEW kind \in KindOf(change), NEW image \in Images,
         NEW removes \in BOOLEAN, NEW after \in OwnSessions \cup {None},
         Propose(change, kind, image, removes, after),
         text' \in Texts, generation' \in Nat,
         candidate = None, unlocked # None, state.overlay = None,
         removes => change = "slot",
         ~removes => unlocked.slot \in Present(image),
         change # "slot" =>
           image.rights = committed.rights /\ image.invited = committed.invited,
         change = "lease" => ~unlocked.invited,
         change = "lease" /\ after # None => state.unlocked,
         change # "lease" => state.unlocked,
         change = "outcome" => image.attempt = None
  PROVE  IInv'
<1> DEFINE b == Begin(state, NextOperation, kind)
<1>1. /\ kind \in Kinds /\ NextOperation \in Nat
      /\ state \in ContainerStates /\ state' = b
      /\ MayBegin(state, NextOperation, kind)
  BY DEF IInv, TypeOK, KindOf, Kinds, Attempts, Changes, Propose, NextOperation,
         ContainerStates
<1>2. /\ b \in ContainerStates
      /\ b.phase = "publishing" /\ b.operation = NextOperation /\ b.kind = kind
      /\ b.open = state.open /\ b.unlocked = state.unlocked /\ b.slot = state.slot
      /\ b.rights = state.rights /\ b.overlay = state.overlay
      /\ b.lease = state.lease /\ b.editing = state.editing
      /\ b.attention = state.attention
  BY <1>1, BeginFields
<1> HIDE DEF b
<1>3. /\ candidate' = [operation |-> NextOperation, change |-> change,
                       image |-> image, generation |-> generation',
                       removes |-> removes, session |-> after]
      /\ candidate' \in Candidates
      /\ candidate' # None
      /\ journal' = "candidate" /\ heartbeat' = heartbeat /\ display' = display
      /\ written' = FALSE
      /\ UNCHANGED <<committed, target, unlocked, activity, session, wedged, disk,
                     raised>>
  <2>1. /\ candidate' = [operation |-> NextOperation, change |-> change,
                       image |-> image, generation |-> generation',
                       removes |-> removes, session |-> after]
        /\ written' = FALSE /\ HostDoes(BeginEffects)
        /\ UNCHANGED <<committed, target, unlocked, activity, session, wedged, disk,
                     raised>>
    BY DEF Propose
  <2>2. candidate' \in Candidates
    BY <1>1, <2>1 DEF Candidates
  <2>4. candidate' # None
    BY <2>2, NoneIsNoRecord
  <2>3. journal' = "candidate" /\ heartbeat' = heartbeat /\ display' = display
    BY <2>1 DEF HostDoes, BeginEffects, IInv, TypeOK
  <2> QED BY <2>1, <2>2, <2>3, <2>4
<1>4. TypeOK'
  BY <1>1, <1>2, <1>3 DEF IInv, TypeOK
<1>5. EditingAuthorized'
  BY <1>1, <1>2, <1>3 DEF IInv, EditingAuthorized, MayBegin, KindOf, Changes
<1>6. OnePublication'
  BY <1>1, <1>2, <1>3 DEF IInv, OnePublication, MayBegin
<1>7. NeverWedged' /\ HostInStep' /\ ConfirmedIsTarget'
  BY <1>1, <1>2, <1>3 DEF IInv, NeverWedged, HostInStep, ConfirmedIsTarget, MayBegin, Overlay
<1>8. Lifetime' /\ ActiveSlot' /\ Overlay'
  BY <1>1, <1>2, <1>3 DEF IInv, Lifetime, ActiveSlot, Overlay, MayBegin, Present
<1>9. CandidateFits'
  BY <1>1, <1>2, <1>3 DEF IInv, CandidateFits, Present
<1>10. StillRaised' /\ OutcomeKept'
  BY <1>1, <1>2, <1>3 DEF IInv, StillRaised, OutcomeKept
<1> QED BY <1>4, <1>5, <1>6, <1>7, <1>8, <1>9, <1>10 DEF IInv

-----------------------------------------------------------------------------
(* The host starts with a closed container. *)

LEMMA InitHolds == Init => IInv
<1> SUFFICES ASSUME Init PROVE IInv
  OBVIOUS
<1>1. disk \in Images
  <2>1. PICK rights \in SlotRights, lease \in {None, Theirs}, t \in Texts :
          \E invited \in SUBSET {s \in Slots \ {Owner} : rights[s] # None} :
            disk = [rights |-> rights, invited |-> invited, lease |-> lease,
                    provisional |-> FALSE, text |-> t, sealed |-> t, attempt |-> None]
    BY DEF Init
  <2>2. rights \in [Slots -> Rights \cup {None}]
    BY DEF SlotRights, Rights, AllRights, Permissions, WellFormed
  <2> QED BY <2>1, <2>2 DEF Images, Sessions
<1>2. /\ state = ClosedState /\ committed = None /\ target = None /\ unlocked = None
      /\ text = None /\ generation = 0 /\ candidate = None /\ activity = None
      /\ session = None /\ wedged = FALSE /\ written = FALSE /\ journal = "nothing"
      /\ heartbeat = FALSE /\ display = FALSE /\ raised = FALSE
  BY DEF Init
<1>3. TypeOK
  BY <1>1, <1>2, ClosedFields DEF TypeOK
<1>4. /\ EditingAuthorized /\ OnePublication /\ NeverWedged /\ HostInStep
      /\ ConfirmedIsTarget
  BY <1>2, ClosedFields
     DEF EditingAuthorized, OnePublication, NeverWedged, HostInStep, ConfirmedIsTarget
<1>5. /\ Lifetime /\ ActiveSlot /\ Overlay /\ CandidateFits /\ StillRaised
      /\ OutcomeKept
  BY <1>2, ClosedFields
     DEF Lifetime, ActiveSlot, Overlay, CandidateFits, StillRaised, OutcomeKept
<1> QED BY <1>3, <1>4, <1>5 DEF IInv

-----------------------------------------------------------------------------
(* Access *)

LEMMA OpenStep == IInv /\ OpenDocument => IInv'
<1> SUFFICES ASSUME IInv, OpenDocument PROVE IInv'
  OBVIOUS
<1>1. /\ state = ClosedState /\ candidate = None /\ activity = None /\ ~raised
      /\ unlocked = None /\ target = None
  BY ClosedFields DEF IInv, Lifetime, OpenDocument, MayOpen, OnePublication
<1>2. /\ state' = [ClosedState EXCEPT !.open = TRUE] /\ committed' = disk
      /\ committed' # None
      /\ UNCHANGED <<target, unlocked, text, generation, operations, outside, duties,
                     raised>>
  BY <1>1, NoneIsNoRecord DEF OpenDocument, Open, IInv, TypeOK
<1>7. state' \in ContainerStates
  BY <1>2, ClosedFields DEF ContainerStates
<1>3. TypeOK'
  BY <1>2, <1>7 DEF IInv, TypeOK, operations, outside, duties
<1>4. /\ EditingAuthorized' /\ OnePublication' /\ NeverWedged' /\ HostInStep'
      /\ ConfirmedIsTarget'
  BY <1>1, <1>2, ClosedFields
     DEF IInv, EditingAuthorized, OnePublication, NeverWedged, HostInStep,
         ConfirmedIsTarget, operations, outside, duties, ContainerStates
<1>5. Lifetime'
  BY <1>1, <1>2, ClosedFields DEF IInv, Lifetime, ContainerStates
<1>6. /\ ActiveSlot' /\ Overlay' /\ CandidateFits' /\ StillRaised' /\ OutcomeKept'
  BY <1>1, <1>2, ClosedFields
     DEF IInv, ActiveSlot, Overlay, CandidateFits, StillRaised, OutcomeKept,
         operations, ContainerStates
<1> QED BY <1>3, <1>4, <1>5, <1>6 DEF IInv

LEMMA CloseStep == IInv /\ CloseContainer => IInv'
<1> SUFFICES ASSUME IInv, CloseContainer PROVE IInv'
  OBVIOUS
<1>1. /\ state' = ClosedState /\ committed' = None /\ target' = None
      /\ unlocked' = None /\ text' = None /\ generation' = 0 /\ candidate' = None
      /\ activity' = None /\ session' = None /\ written' = FALSE /\ raised' = FALSE
      /\ UNCHANGED <<wedged, disk>> /\ state.open
      /\ HostDoes(CloseEffects(state))
  BY DEF CloseContainer, MayClose
<1>2. /\ journal' \in {"nothing", "candidate", "outcome"}
      /\ heartbeat' = FALSE /\ display' = FALSE
  BY <1>1 DEF HostDoes, CloseEffects, Stop, IInv, TypeOK, HostInStep
<1>3. TypeOK'
  BY <1>1, <1>2, ClosedFields DEF IInv, TypeOK
<1>4. /\ EditingAuthorized' /\ OnePublication' /\ NeverWedged' /\ HostInStep'
      /\ ConfirmedIsTarget'
  BY <1>1, <1>2, ClosedFields
     DEF IInv, EditingAuthorized, OnePublication, NeverWedged, HostInStep,
         ConfirmedIsTarget
<1>5. /\ Lifetime' /\ ActiveSlot' /\ Overlay' /\ CandidateFits' /\ StillRaised'
      /\ OutcomeKept'
  BY <1>1, <1>2, ClosedFields
     DEF Lifetime, ActiveSlot, Overlay, CandidateFits, StillRaised, OutcomeKept
<1> QED BY <1>3, <1>4, <1>5 DEF IInv

\* A session that is not publishing has nothing retained.
LEMMA IdleFacts ==
  ASSUME IInv, state.phase = "idle"
  PROVE  candidate = None /\ activity = None
BY DEF IInv, OnePublication

LEMMA LockStep == IInv /\ LockContainer => IInv'
<1> SUFFICES ASSUME IInv, LockContainer PROVE IInv'
  OBVIOUS
<1>1. /\ state \in ContainerStates /\ Shown(state)
      /\ state' = [state EXCEPT !.unlocked = FALSE, !.editing = FALSE, !.slot = None,
                                !.rights = {}]
      /\ UNCHANGED <<document, operations, outside, raised>>
      /\ candidate = None /\ activity = None
  BY IdleFacts DEF LockContainer, Lock, MayLock, IInv, TypeOK, Shown
<1>2. heartbeat' = FALSE /\ display' = FALSE /\ journal' = journal
  BY DEF LockContainer, HostDoes, LockEffects, Stop, IInv, TypeOK, HostInStep
<1>6. state' \in ContainerStates
  BY <1>1 DEF ContainerStates, Permissions
<1>3. TypeOK'
  BY <1>1, <1>2, <1>6 DEF IInv, TypeOK, document, operations, outside
<1>4. /\ EditingAuthorized' /\ OnePublication' /\ NeverWedged' /\ HostInStep'
      /\ ConfirmedIsTarget'
  BY <1>1, <1>2
     DEF IInv, EditingAuthorized, OnePublication, NeverWedged, HostInStep,
         ConfirmedIsTarget, document, operations, outside, ContainerStates, Shown
<1>5. /\ Lifetime' /\ ActiveSlot' /\ Overlay' /\ CandidateFits' /\ StillRaised'
      /\ OutcomeKept'
  BY <1>1, <1>2
     DEF IInv, Lifetime, ActiveSlot, Overlay, CandidateFits, StillRaised, OutcomeKept,
         document, operations, ContainerStates, Shown
<1> QED BY <1>3, <1>4, <1>5 DEF IInv

LEMMA ShowStep == IInv /\ ShowText => IInv'
<1> SUFFICES ASSUME IInv, ShowText PROVE IInv'
  OBVIOUS
<1>1. /\ UNCHANGED <<state, document, operations, outside, journal, heartbeat, raised>>
      /\ display' = TRUE /\ state.open /\ state.unlocked
  BY DEF ShowText, CanReadClear
<1>2. TypeOK'
  BY <1>1 DEF IInv, TypeOK, document, operations, outside
<1>3. /\ EditingAuthorized' /\ OnePublication' /\ NeverWedged' /\ HostInStep'
      /\ ConfirmedIsTarget'
  BY <1>1
     DEF IInv, EditingAuthorized, OnePublication, NeverWedged, HostInStep,
         ConfirmedIsTarget, document, operations, outside
<1>4. /\ Lifetime' /\ ActiveSlot' /\ Overlay' /\ CandidateFits' /\ StillRaised'
      /\ OutcomeKept'
  BY <1>1
     DEF IInv, Lifetime, ActiveSlot, Overlay, CandidateFits, StillRaised, OutcomeKept,
         document, operations, outside, Present
<1> QED BY <1>2, <1>3, <1>4 DEF IInv

\* Every slot of an image has well-formed rights.
LEMMA SlotOfImage ==
  ASSUME NEW image \in Images, NEW slot \in Present(image)
  PROVE  /\ slot \in Slots /\ image.rights[slot] \in Permissions
         /\ WellFormed(image.rights[slot])
         /\ Decoded(image, slot) \in Decodings
         /\ Decoded(image, slot) # None
<1>1. /\ slot \in Slots /\ image.rights[slot] \in Rights
  BY DEF Images, Present
<1>2. /\ image.rights[slot] \in Permissions /\ WellFormed(image.rights[slot])
  BY <1>1 DEF Rights
<1>3. Decoded(image, slot) \in Decodings
  BY <1>1, <1>2 DEF Decoded, Decodings
<1> QED BY <1>1, <1>2, <1>3, NoneIsNoRecord

LEMMA UnlockStep == ASSUME IInv, NEW slot \in Slots, UnlockDocument(slot) PROVE IInv'
<1> DEFINE source == IF target # None THEN target ELSE committed
           retained == unlocked # None /\ unlocked.slot = slot
           lease == IF source.lease = None THEN "none"
                    ELSE IF source.lease = session THEN "held" ELSE "other_holder"
           rights == source.rights[slot]
           after == Unlock(state, slot, rights, lease)
<1>1. /\ ~wedged /\ state.open /\ committed # None
      /\ slot \in Present(source)
      /\ target # None /\ state.overlay # None =>
           slot = state.overlay.slot /\ source.rights[slot] = state.overlay.rights
      /\ MayUnlock(state, slot, rights, target # None)
      /\ state' = after
      /\ unlocked' = [(IF retained THEN unlocked ELSE Decoded(source, slot))
                       EXCEPT !.rights = after.rights]
      /\ text' = IF retained THEN text ELSE source.text
      /\ UNCHANGED <<committed, target, generation, operations, outside, duties,
                     raised>>
  BY DEF UnlockDocument
<1>2. /\ source \in Images /\ lease \in Leases /\ rights \in Permissions
      /\ Decoded(source, slot) \in Decodings
  BY <1>1, SlotOfImage DEF IInv, TypeOK, Leases
<1>3. /\ state \in ContainerStates /\ ~state.unlocked /\ ~state.editing
      /\ state.phase = "idle" /\ candidate = None /\ activity = None
      /\ state.overlay # None => state.overlay \in Overlays
  BY <1>1, IdleFacts
     DEF MayUnlock, Idle, IInv, TypeOK, EditingAuthorized, ContainerStates
<1>4. /\ after = [state EXCEPT !.unlocked = TRUE, !.slot = slot, !.lease = lease,
                    !.rights = after.rights, !.attention = after.attention]
      /\ after.rights \in Permissions
      /\ after.attention \in Attentions
      /\ after.attention # "reauthenticate"
      /\ state.attention # "reauthenticate" => after.attention = state.attention
  BY <1>2, <1>3 DEF Unlock, ContainerStates, Overlays, Attentions
<1> HIDE DEF lease, after, rights
<1>5. /\ after \in ContainerStates
      /\ after.unlocked = TRUE /\ after.slot = slot /\ after.lease = lease
      /\ after.open = state.open /\ after.editing = state.editing
      /\ after.overlay = state.overlay /\ after.phase = state.phase
      /\ after.kind = state.kind /\ after.operation = state.operation
  <2>1. after \in ContainerStates
    BY ZenonT(60), <1>2, <1>3, <1>4 DEF ContainerStates
  <2>2. /\ after.unlocked = TRUE /\ after.slot = slot /\ after.lease = lease
        /\ after.open = state.open /\ after.editing = state.editing
    BY ZenonT(60), <1>3, <1>4 DEF ContainerStates
  <2>3. /\ after.overlay = state.overlay /\ after.phase = state.phase
        /\ after.kind = state.kind /\ after.operation = state.operation
    BY ZenonT(60), <1>3, <1>4 DEF ContainerStates
  <2> QED BY <2>1, <2>2, <2>3
<1>6. /\ unlocked' \in Decodings
      /\ unlocked' # None /\ unlocked'.slot = slot
      /\ unlocked'.invited = IF retained THEN unlocked.invited
                             ELSE slot \in source.invited
  <2>1. (IF retained THEN unlocked ELSE Decoded(source, slot))
          \in Decodings
    BY <1>2 DEF IInv, TypeOK
  <2>2. unlocked' \in Decodings
    BY <1>1, <1>4, <2>1 DEF Decodings
  <2>3. unlocked'.slot = slot
    BY <1>1, <2>1 DEF Decoded, Decodings
  <2>4. unlocked'.invited = IF retained THEN unlocked.invited
                             ELSE slot \in source.invited
    BY <1>1, <2>1 DEF Decoded, Decodings
  <2> QED BY <2>2, <2>3, <2>4, NoneIsNoRecord
<1>7. target # None => retained
  BY <1>1, <1>3 DEF IInv, Overlay
<1>8. text' \in Texts
  BY <1>1, <1>2 DEF IInv, ActiveSlot, Images
<1>9. TypeOK'
  BY <1>1, <1>5, <1>6, <1>8 DEF IInv, TypeOK, operations, outside, duties
<1>10. /\ EditingAuthorized' /\ OnePublication' /\ NeverWedged' /\ HostInStep'
       /\ ConfirmedIsTarget'
  BY <1>1, <1>3, <1>5, <1>6
     DEF IInv, EditingAuthorized, OnePublication, NeverWedged, HostInStep,
         ConfirmedIsTarget, operations, outside, duties
<1>11. Lifetime' /\ Overlay'
  BY <1>1, <1>3, <1>4, <1>5, <1>6, <1>7, NoneIsNoSlot DEF IInv, Lifetime, Overlay
<1>12. ActiveSlot'
  <2>1. slot \in Present(committed)
    BY <1>1, <1>7 DEF IInv, ActiveSlot
  <2> QED
    BY <2>1, <1>1, <1>5, <1>6, <1>7, <1>8 DEF IInv, ActiveSlot, Present
<1>13. CandidateFits' /\ StillRaised' /\ OutcomeKept'
  BY <1>1, <1>3, <1>4, <1>5 DEF IInv, CandidateFits, StillRaised, OutcomeKept, operations
<1> QED BY <1>9, <1>10, <1>11, <1>12, <1>13 DEF IInv

LEMMA TargetStep ==
  ASSUME IInv, committed # None, NEW image \in ForeignImages, NEW slot \in Slots,
         NEW same \in BOOLEAN, ApplyTargetDocument(image, slot, same)
  PROVE  IInv'
<1> DEFINE matched == slot = state.slot
           rights == IF matched THEN image.rights[slot] ELSE {}
           changed == ~(matched /\ same)
           after == ApplyTarget(state, rights, changed)
           effective == IF changed THEN {} ELSE rights
<1>1. /\ ~wedged /\ Shown(state) /\ state.slot # None /\ state.overlay = None
      /\ target = None /\ slot \in Present(image)
      /\ target' = image /\ disk' = image
      /\ state' = after /\ HostDoes(ApplyTargetEffects(state, rights, changed))
      /\ unlocked' = [unlocked EXCEPT !.rights = after.rights]
      /\ UNCHANGED <<committed, text, generation, operations, written, raised>>
  BY DEF ApplyTargetDocument
<1>2. image \in Images
  <2>1. PICK r \in SlotRights :
          image = [committed EXCEPT !.rights = r, !.invited = {s \in @ : r[s] # None}]
    BY DEF ForeignImages
  <2>2. r \in [Slots -> Rights \cup {None}]
    BY DEF SlotRights, Rights, AllRights, Permissions, WellFormed
  <2>3. {s \in committed.invited : r[s] # None} \in SUBSET Slots
    BY DEF IInv, TypeOK, Images
  <2> QED BY <2>1, <2>2, <2>3 DEF IInv, TypeOK, Images
<1>3. /\ rights \in Permissions /\ effective \in Permissions /\ changed \in BOOLEAN
  BY <1>1, <1>2, SlotOfImage DEF Permissions
<1>4. /\ state \in ContainerStates /\ state.slot \in Slots /\ state.slot = unlocked.slot
      /\ unlocked # None /\ candidate = None /\ activity = None /\ image # None
      /\ state.open /\ state.unlocked /\ state.phase = "idle"
  BY <1>1, <1>2, IdleFacts, NoneIsNoRecord
     DEF Shown, IInv, TypeOK, Lifetime, ContainerStates
<1> HIDE DEF rights, changed, effective
<1>5. /\ after = [state EXCEPT
                    !.overlay = [slot |-> state.slot, rights |-> rights,
                                 changed |-> changed],
                    !.rights = effective, !.attention = after.attention,
                    !.unlocked = ~changed, !.slot = after.slot,
                    !.editing = after.editing]
      /\ after.attention = IF changed THEN "reauthenticate" ELSE state.attention
      /\ after.slot = IF changed THEN None ELSE state.slot
      /\ after.editing = (state.editing /\ "edit" \in effective)
  BY <1>3, <1>4 DEF ApplyTarget, ContainerStates, effective
<1> HIDE DEF after
<1>6. /\ after \in ContainerStates /\ after.overlay # None
      /\ after.overlay.slot = state.slot
      /\ after.unlocked = ~changed /\ after.rights = effective
      /\ after.open = state.open /\ after.phase = state.phase
      /\ after.lease = state.lease
  <2>1. [slot |-> state.slot, rights |-> rights, changed |-> changed] \in Overlays
    BY <1>3, <1>4 DEF Overlays
  <2>2. after.attention \in Attentions /\ after.slot \in Slots \cup {None}
    BY <1>4, <1>5 DEF ContainerStates, Attentions
  <2>3. after \in ContainerStates
    BY ZenonT(60), <1>3, <1>4, <1>5, <2>1, <2>2 DEF ContainerStates
  <2>4. /\ after.overlay = [slot |-> state.slot, rights |-> rights,
                            changed |-> changed]
        /\ after.unlocked = ~changed /\ after.rights = effective
        /\ after.open = state.open /\ after.phase = state.phase
        /\ after.lease = state.lease
    BY <1>4, <1>5 DEF ContainerStates
  <2> QED BY <2>1, <2>3, <2>4, NoneIsNoRecord
<1>7. /\ unlocked' \in Decodings
      /\ unlocked' # None /\ unlocked'.slot = unlocked.slot
      /\ unlocked'.invited = unlocked.invited
  <2>1. /\ unlocked' \in Decodings
        /\ unlocked'.slot = unlocked.slot /\ unlocked'.invited = unlocked.invited
    BY <1>1, <1>3, <1>4, <1>6 DEF IInv, TypeOK, Decodings
  <2> QED BY <2>1, NoneIsNoRecord
<1>8. /\ heartbeat' = after.editing /\ display' \in BOOLEAN
      /\ display' => after.open /\ after.unlocked
      /\ journal' = journal
  <2>1. /\ "start_heartbeat" \notin ApplyTargetEffects(state, rights, changed)
        /\ "journal_candidate" \notin ApplyTargetEffects(state, rights, changed)
        /\ "journal_activity_outcome" \notin ApplyTargetEffects(state, rights, changed)
        /\ "clear_journal" \notin ApplyTargetEffects(state, rights, changed)
        /\ "stop_heartbeat" \in ApplyTargetEffects(state, rights, changed)
             <=> state.editing /\ (changed \/ "edit" \notin rights)
        /\ "clear_display" \in ApplyTargetEffects(state, rights, changed) <=> changed
    BY DEF ApplyTargetEffects
  <2> QED
    BY <1>1, <1>4, <1>5, <1>6, <2>1
       DEF HostDoes, IInv, TypeOK, HostInStep, effective
<1>9. TypeOK'
  BY <1>1, <1>2, <1>5, <1>6, <1>7, <1>8 DEF IInv, TypeOK, operations, ContainerStates
<1>10. /\ EditingAuthorized' /\ OnePublication' /\ NeverWedged' /\ HostInStep'
       /\ ConfirmedIsTarget'
  BY <1>1, <1>4, <1>5, <1>6, <1>7, <1>8
     DEF IInv, EditingAuthorized, OnePublication, NeverWedged, HostInStep,
         ConfirmedIsTarget, operations, effective
<1>11. Lifetime' /\ ActiveSlot' /\ Overlay'
  BY <1>1, <1>4, <1>5, <1>6, <1>7, NoneIsNoSlot
     DEF IInv, Lifetime, ActiveSlot, Overlay, Present
<1>12. CandidateFits' /\ StillRaised' /\ OutcomeKept'
  BY <1>1, <1>4, <1>6 DEF IInv, CandidateFits, StillRaised, OutcomeKept, operations
<1> QED BY <1>9, <1>10, <1>11, <1>12 DEF IInv

LEMMA RaiseStep ==
  ASSUME IInv, NEW reason \in {"conflict", "target_replaced"}, RaiseAttention(reason)
  PROVE  IInv'
<1>1. /\ state \in ContainerStates /\ Idle(state)
      /\ state' = [state EXCEPT !.attention = reason] /\ raised' = TRUE
      /\ UNCHANGED <<document, operations, outside, duties>>
      /\ candidate = None /\ activity = None
  BY IdleFacts DEF RaiseAttention, MayRaise, Raise, Idle, IInv, TypeOK
<1>2. state' \in ContainerStates
  BY <1>1 DEF ContainerStates, Attentions
<1>3. TypeOK'
  BY <1>1, <1>2 DEF IInv, TypeOK, document, operations, outside, duties
<1>4. /\ EditingAuthorized' /\ OnePublication' /\ NeverWedged' /\ HostInStep'
      /\ ConfirmedIsTarget'
  BY <1>1
     DEF IInv, EditingAuthorized, OnePublication, NeverWedged, HostInStep,
         ConfirmedIsTarget, document, operations, outside, duties, ContainerStates, Idle
<1>5. /\ Lifetime' /\ ActiveSlot' /\ Overlay' /\ CandidateFits' /\ StillRaised'
      /\ OutcomeKept'
  BY <1>1
     DEF IInv, Lifetime, ActiveSlot, Overlay, CandidateFits, StillRaised, OutcomeKept,
         document, operations, ContainerStates, Idle, Present
<1> QED BY <1>3, <1>4, <1>5 DEF IInv

-----------------------------------------------------------------------------
(* Editing *)

LEMMA ReleaseStep == IInv /\ ReleaseEdit => IInv'
<1> SUFFICES ASSUME IInv, ReleaseEdit PROVE IInv'
  OBVIOUS
<1>1. /\ state \in ContainerStates /\ Idle(state)
      /\ state' = [state EXCEPT !.editing = FALSE, !.lease = "none"]
      /\ heartbeat' = FALSE /\ display' = display /\ journal' = journal
      /\ UNCHANGED <<document, operations, outside, raised>>
      /\ candidate = None /\ activity = None
  BY IdleFacts
     DEF ReleaseEdit, MayRelease, Release, ReleaseEffects, HostDoes, Idle, IInv, TypeOK
<1>2. state' \in ContainerStates
  BY <1>1 DEF ContainerStates, Leases
<1>3. TypeOK'
  BY ZenonT(60), <1>1, <1>2 DEF IInv, TypeOK, document, operations, outside
<1>4. /\ EditingAuthorized' /\ OnePublication' /\ NeverWedged' /\ HostInStep'
      /\ ConfirmedIsTarget'
  BY <1>1
     DEF IInv, EditingAuthorized, OnePublication, NeverWedged, HostInStep,
         ConfirmedIsTarget, document, operations, outside, ContainerStates
<1>5. /\ Lifetime' /\ ActiveSlot' /\ Overlay' /\ CandidateFits' /\ StillRaised'
      /\ OutcomeKept'
  BY <1>1
     DEF IInv, Lifetime, ActiveSlot, Overlay, CandidateFits, StillRaised, OutcomeKept,
         document, operations, ContainerStates, Idle, Present
<1> QED BY <1>3, <1>4, <1>5 DEF IInv

LEMMA ConfirmStep == IInv /\ ConfirmEditLease => IInv'
<1> SUFFICES ASSUME IInv, ConfirmEditLease PROVE IInv'
  OBVIOUS
<1>1. /\ state \in ContainerStates /\ Shown(state) /\ "edit" \in state.rights
      /\ state' = [state EXCEPT !.lease = "held", !.editing = TRUE]
      /\ heartbeat' = TRUE /\ display' = display /\ journal' = journal
      /\ UNCHANGED <<document, operations, outside, raised>>
      /\ candidate = None /\ activity = None
      /\ unlocked # None /\ ~unlocked.invited
  BY IdleFacts
     DEF ConfirmEditLease, MayAcquire, Acquire, AcquireEffects, HostDoes, Shown, IInv,
         TypeOK, HostInStep, Lifetime
<1>2. state' \in ContainerStates
  BY <1>1 DEF ContainerStates, Leases
<1>3. TypeOK'
  BY <1>1, <1>2 DEF IInv, TypeOK, document, operations, outside
<1>4. /\ EditingAuthorized' /\ OnePublication' /\ NeverWedged' /\ HostInStep'
      /\ ConfirmedIsTarget'
  BY <1>1
     DEF IInv, EditingAuthorized, OnePublication, NeverWedged, HostInStep,
         ConfirmedIsTarget, document, operations, outside, ContainerStates, Shown
<1>5. /\ Lifetime' /\ ActiveSlot' /\ Overlay' /\ CandidateFits' /\ StillRaised'
      /\ OutcomeKept'
  BY <1>1
     DEF IInv, Lifetime, ActiveSlot, Overlay, CandidateFits, StillRaised, OutcomeKept,
         document, operations, ContainerStates, Shown, Present
<1> QED BY <1>3, <1>4, <1>5 DEF IInv

LEMMA SubmitStep == ASSUME IInv, NEW t \in Texts, SubmitContent(t) PROVE IInv'
<1>1. /\ text' = t /\ generation' \in Nat
      /\ UNCHANGED <<state, committed, target, unlocked, operations, outside, duties,
                     raised>>
  BY DEF SubmitContent, IInv, TypeOK
<1>2. TypeOK'
  BY <1>1 DEF IInv, TypeOK, operations, outside, duties
<1>3. /\ EditingAuthorized' /\ OnePublication' /\ NeverWedged' /\ HostInStep'
      /\ ConfirmedIsTarget'
  BY <1>1
     DEF IInv, EditingAuthorized, OnePublication, NeverWedged, HostInStep,
         ConfirmedIsTarget, operations, outside, duties
<1>4. /\ Lifetime' /\ ActiveSlot' /\ Overlay' /\ CandidateFits' /\ StillRaised'
      /\ OutcomeKept'
  BY <1>1
     DEF IInv, Lifetime, ActiveSlot, Overlay, CandidateFits, StillRaised, OutcomeKept,
         operations, outside, duties, Present
<1> QED BY <1>2, <1>3, <1>4 DEF IInv

-----------------------------------------------------------------------------
(* The prepare operations *)

LEMMA ReadyFacts ==
  ASSUME IInv, Ready
  PROVE  /\ candidate = None /\ unlocked # None /\ state.overlay = None
         /\ committed \in Images /\ text \in Texts /\ generation \in Nat
         /\ unlocked.slot \in Slots /\ unlocked.slot \in Present(committed)
<1>1. /\ candidate = None /\ unlocked # None /\ state.overlay = None
      /\ text \in Texts /\ generation \in Nat /\ state.open
      /\ unlocked.slot \in Present(committed)
  BY DEF Ready, IInv, TypeOK, ActiveSlot
<1>2. committed \in Images
  BY <1>1 DEF IInv, TypeOK, Lifetime
<1> QED BY <1>1, <1>2, SlotOfImage

LEMMA RetainStep ==
  ASSUME IInv, Ready,
         NEW change \in Changes, NEW kind \in KindOf(change), NEW image \in Images,
         NEW removes \in BOOLEAN, NEW after \in OwnSessions \cup {None},
         Retain(change, kind, image, removes, after),
         removes => change = "slot",
         ~removes => unlocked.slot \in Present(image),
         change # "slot" =>
           image.rights = committed.rights /\ image.invited = committed.invited,
         change = "lease" => ~unlocked.invited,
         change = "lease" /\ after # None => state.unlocked,
         change # "lease" => state.unlocked,
         change = "outcome" => image.attempt = None
  PROVE  IInv'
<1>1. /\ Propose(change, kind, image, removes, after)
      /\ text' \in Texts /\ generation' \in Nat
  BY ReadyFacts DEF Retain
<1> QED BY <1>1, ReadyFacts, ProposeStep

LEMMA SaveImages ==
  ASSUME IInv, Ready, NEW t \in Texts, NEW regular \in BOOLEAN
  PROVE  /\ SaveImage(t, regular) \in Images
         /\ SaveImage(t, regular).rights = committed.rights
         /\ SaveImage(t, regular).invited = committed.invited
         /\ unlocked.slot \in Present(SaveImage(t, regular))
BY ReadyFacts DEF SaveImage, Images, Present

LEMMA SaveStep == ASSUME IInv, NEW regular \in BOOLEAN, PrepareSave(regular) PROVE IInv'
<1>1. /\ Ready /\ state.unlocked
      /\ Retain("save", "save", SaveImage(text, regular), FALSE, None)
  BY DEF PrepareSave, MayEdit
<1>2. "save" \in Changes /\ "save" \in KindOf("save")
  BY DEF Changes, KindOf
<1> QED BY <1>1, <1>2, SaveImages, ReadyFacts, RetainStep

LEMMA MergeStep == ASSUME IInv, NEW t \in Texts, PrepareMerge(t) PROVE IInv'
<1>1. /\ Ready /\ state.unlocked
      /\ Propose("save", "save", SaveImage(t, FALSE), FALSE, None)
      /\ text' = t /\ generation' = generation + 1
  BY DEF PrepareMerge, MayEdit
<1>2. "save" \in Changes /\ "save" \in KindOf("save") /\ generation' \in Nat
  BY <1>1, ReadyFacts DEF Changes, KindOf
<1> QED BY <1>1, <1>2, SaveImages, ReadyFacts, ProposeStep

LEMMA DiscardStep == ASSUME IInv, PrepareDiscard PROVE IInv'
<1> DEFINE image == [committed EXCEPT !.provisional = FALSE, !.text = committed.sealed]
<1>1. /\ Ready /\ state.unlocked /\ Retain("discard", "save", image, FALSE, None)
  BY DEF PrepareDiscard, MayEdit
<1>2. "discard" \in Changes /\ "save" \in KindOf("discard")
  BY DEF Changes, KindOf
<1>3. /\ image \in Images /\ image.rights = committed.rights
      /\ image.invited = committed.invited /\ unlocked.slot \in Present(image)
  BY <1>1, ReadyFacts DEF Images, Present
<1> QED BY <1>1, <1>2, <1>3, RetainStep

LEMMA AppendedImages ==
  ASSUME NEW image \in Images
  PROVE  /\ Appended(image) \in Images /\ Appended(image).rights = image.rights
         /\ Appended(image).invited = image.invited /\ Appended(image).attempt = None
         /\ Present(Appended(image)) = Present(image)
BY DEF Appended, Images, Present

LEMMA CompactionStep == ASSUME IInv, PrepareCompaction PROVE IInv'
<1>1. /\ Ready /\ state.unlocked
      /\ Retain("compaction", "compaction", Appended(committed), FALSE, None)
  BY DEF PrepareCompaction, MayEdit
<1>2. "compaction" \in Changes /\ "compaction" \in KindOf("compaction")
  BY DEF Changes, KindOf
<1> QED BY <1>1, <1>2, AppendedImages, ReadyFacts, RetainStep

LEMMA LeaseStep ==
  ASSUME IInv, NEW image \in Images, NEW after \in OwnSessions \cup {None},
         PrepareLease(image, after),
         committed # None =>
           image.rights = committed.rights /\ image.invited = committed.invited,
         after # None => state.unlocked
  PROVE  IInv'
<1>1. /\ Ready /\ ~unlocked.invited
      /\ Retain("lease", "lease_change", image, FALSE, after)
  BY DEF PrepareLease
<1>2. /\ "lease" \in Changes /\ "lease_change" \in KindOf("lease")
  BY DEF Changes, KindOf
<1>3. /\ image.rights = committed.rights /\ image.invited = committed.invited
      /\ unlocked.slot \in Present(image)
  BY <1>1, ReadyFacts, NoneIsNoRecord DEF Present
<1> QED BY <1>1, <1>2, <1>3, RetainStep

LEMMA LeaseSteps ==
  ASSUME IInv,
         \/ \E s \in OwnSessions : AcquireLease(s)
         \/ RenewLease \/ ReleaseLease
         \/ \E s \in OwnSessions, stale \in BOOLEAN : TakeOverLease(s, stale)
  PROVE  IInv'
<1>1. ASSUME Ready, NEW l \in Sessions \cup {None}
      PROVE  /\ [committed EXCEPT !.lease = l] \in Images
             /\ [committed EXCEPT !.lease = l].rights = committed.rights
             /\ [committed EXCEPT !.lease = l].invited = committed.invited
  BY <1>1, ReadyFacts DEF Images
<1>2. ASSUME NEW s \in OwnSessions, AcquireLease(s) PROVE IInv'
  <2>1. /\ Ready /\ state.unlocked /\ s \in Sessions
        /\ PrepareLease([committed EXCEPT !.lease = s], s)
    BY <1>2 DEF AcquireLease, PrepareLease, Sessions
  <2> QED BY <1>1, <2>1, LeaseStep
<1>3. ASSUME RenewLease PROVE IInv'
  <2>1. Ready /\ state.unlocked /\ session \in OwnSessions /\ PrepareLease(committed, session)
    BY <1>3 DEF RenewLease, PrepareLease, IInv, TypeOK
  <2> QED BY <2>1, ReadyFacts, LeaseStep
<1>4. ASSUME ReleaseLease PROVE IInv'
  <2>1. Ready /\ PrepareLease([committed EXCEPT !.lease = None], None)
    BY <1>4 DEF ReleaseLease, PrepareLease
  <2> QED BY <1>1, <2>1, LeaseStep
<1>5. ASSUME NEW s \in OwnSessions, NEW stale \in BOOLEAN, TakeOverLease(s, stale)
      PROVE  IInv'
  <2>1. /\ Ready /\ state.unlocked /\ s \in Sessions
        /\ PrepareLease([committed EXCEPT !.lease = s], s)
    BY <1>5 DEF TakeOverLease, PrepareLease, Sessions
  <2> QED BY <1>1, <2>1, LeaseStep
<1> QED BY <1>2, <1>3, <1>4, <1>5

-----------------------------------------------------------------------------
(* Slot changes and external activities *)

LEMMA SlotStep ==
  ASSUME IInv, NEW image \in Images, NEW removes \in BOOLEAN,
         PrepareSlots(image, removes), ~removes => unlocked.slot \in Present(image)
  PROVE  IInv'
<1>1. /\ Ready /\ state.unlocked
      /\ Retain("slot", "slot_change", Appended(image), removes, None)
  BY DEF PrepareSlots
<1>2. "slot" \in Changes /\ "slot_change" \in KindOf("slot")
  BY DEF Changes, KindOf
<1> QED BY <1>1, <1>2, AppendedImages, RetainStep

LEMMA SlotSteps ==
  ASSUME IInv,
         \/ ChangeOwnSlot \/ ClaimInvitation
         \/ \E s \in Slots, r \in Grants : AddInvitation(s, r) \/ UpdatePermissions(s, r)
         \/ \E s \in Slots : RemoveSlot(s)
  PROVE  IInv'
<1>1. ASSUME ChangeOwnSlot PROVE IInv'
  <2>1. Ready /\ PrepareSlots(committed, FALSE)
    BY <1>1 DEF ChangeOwnSlot, PrepareSlots
  <2> QED BY <2>1, ReadyFacts, SlotStep
<1>2. ASSUME ClaimInvitation PROVE IInv'
  <2> DEFINE image == [committed EXCEPT !.invited = @ \ {unlocked.slot}]
  <2>1. Ready /\ PrepareSlots(image, FALSE)
    BY <1>2 DEF ClaimInvitation, PrepareSlots
  <2>2. image \in Images /\ unlocked.slot \in Present(image)
    BY <2>1, ReadyFacts DEF Images, Present
  <2> QED BY <2>1, <2>2, SlotStep
<1>3. ASSUME NEW s \in Slots, NEW r \in Grants, AddInvitation(s, r) PROVE IInv'
  <2> DEFINE image == [committed EXCEPT !.invited = @ \cup {s}, !.rights[s] = r]
  <2>1. Ready /\ PrepareSlots(image, FALSE) /\ r \in Rights /\ s \notin Present(committed)
    BY <1>3, GrantsArePermissions DEF AddInvitation, PrepareSlots, Rights
  <2>2. image \in Images
    BY <2>1, ReadyFacts DEF Images
  <2>3. unlocked.slot \in Present(image)
    BY <2>1, ReadyFacts DEF Images, Present
  <2> QED BY <2>1, <2>2, <2>3, SlotStep
<1>4. ASSUME NEW s \in Slots, NEW r \in Grants, UpdatePermissions(s, r) PROVE IInv'
  <2> DEFINE image == [committed EXCEPT !.rights[s] = r]
  <2>1. Ready /\ PrepareSlots(image, FALSE) /\ r \in Rights /\ r # None
    BY <1>4, GrantsArePermissions, NoneIsNoRights
       DEF UpdatePermissions, PrepareSlots, Rights
  <2>2. image \in Images
    BY <2>1, ReadyFacts DEF Images
  <2>3. unlocked.slot \in Present(image)
    BY <2>1, ReadyFacts DEF Images, Present
  <2> QED BY <2>1, <2>2, <2>3, SlotStep
<1>5. ASSUME NEW s \in Slots, RemoveSlot(s) PROVE IInv'
  <2> DEFINE image == [committed EXCEPT !.invited = @ \ {s}, !.rights[s] = None]
  <2>1. Ready /\ PrepareSlots(image, s = unlocked.slot)
    BY <1>5 DEF RemoveSlot, PrepareSlots
  <2>2. image \in Images
    BY <2>1, ReadyFacts DEF Images
  <2>3. s # unlocked.slot => unlocked.slot \in Present(image)
    BY <2>1, ReadyFacts DEF Images, Present
  <2>4. (s = unlocked.slot) \in BOOLEAN
    OBVIOUS
  <2> QED BY <2>1, <2>2, <2>3, <2>4, SlotStep
<1> QED BY <1>1, <1>2, <1>3, <1>4, <1>5

LEMMA AttemptStep == ASSUME IInv, NEW kind \in Attempts, PrepareAttempt(kind) PROVE IInv'
<1> DEFINE image == [committed EXCEPT !.attempt = [kind |-> kind, slot |-> unlocked.slot]]
<1>1. /\ Ready /\ state.unlocked /\ Retain("attempt", kind, image, FALSE, None)
  BY DEF PrepareAttempt
<1>2. "attempt" \in Changes /\ kind \in KindOf("attempt")
  BY DEF Changes, KindOf
<1>3. /\ image \in Images /\ image.rights = committed.rights
      /\ image.invited = committed.invited /\ unlocked.slot \in Present(image)
  BY <1>1, ReadyFacts DEF Images, Present, Attempted
<1> QED BY <1>1, <1>2, <1>3, RetainStep

LEMMA OutcomeStep == IInv /\ PrepareOutcome => IInv'
<1> SUFFICES ASSUME IInv, PrepareOutcome PROVE IInv'
  OBVIOUS
<1>1. /\ candidate = None /\ unlocked # None /\ state.unlocked /\ state.overlay = None
      /\ text' = text /\ generation' = generation
      /\ Propose("outcome", "activity_outcome", Appended(committed), FALSE, None)
  BY DEF PrepareOutcome, Retain
<1>2. /\ committed \in Images /\ text' \in Texts /\ generation' \in Nat
      /\ unlocked.slot \in Present(committed)
  <2>1. state.open /\ text \in Texts /\ unlocked.slot \in Present(committed)
    BY <1>1 DEF IInv, ActiveSlot
  <2> QED BY <1>1, <2>1 DEF IInv, TypeOK, Lifetime
<1>3. "outcome" \in Changes /\ "activity_outcome" \in KindOf("outcome")
  BY DEF Changes, KindOf
<1> QED BY <1>1, <1>2, <1>3, AppendedImages, ProposeStep

LEMMA CompleteStep ==
  ASSUME IInv, NEW succeeded \in BOOLEAN, CompleteActivity(succeeded) PROVE IInv'
<1>1. /\ state \in ContainerStates /\ state.phase = "awaiting_host_action"
      /\ activity \in Activities /\ activity # None
      /\ state' = [state EXCEPT !.phase = "outcome_pending"]
      /\ activity' = [activity EXCEPT !.done = IF succeeded THEN "yes" ELSE "no"]
      /\ heartbeat' = heartbeat /\ display' = display /\ journal' = "outcome"
      /\ candidate = None
      /\ UNCHANGED <<document, candidate, session, wedged, outside, raised>>
  BY DEF CompleteActivity, MayComplete, Complete, CompleteEffects, HostDoes, IInv,
         TypeOK, OnePublication
<1>2. /\ state' \in ContainerStates /\ activity' \in Activities /\ activity' # None
  BY <1>1, NoneIsNoRecord DEF ContainerStates, Activities, Phases
<1>3. TypeOK'
  BY <1>1, <1>2 DEF IInv, TypeOK, document, outside
<1>4. /\ EditingAuthorized' /\ OnePublication' /\ NeverWedged' /\ HostInStep'
      /\ ConfirmedIsTarget'
  BY <1>1, <1>2
     DEF IInv, EditingAuthorized, OnePublication, NeverWedged, HostInStep,
         ConfirmedIsTarget, document, outside, ContainerStates
<1>5. /\ Lifetime' /\ ActiveSlot' /\ Overlay' /\ CandidateFits' /\ StillRaised'
      /\ OutcomeKept'
  BY <1>1
     DEF IInv, Lifetime, ActiveSlot, Overlay, CandidateFits, StillRaised, OutcomeKept,
         document, outside, ContainerStates, ClosedState, Present
<1> QED BY <1>3, <1>4, <1>5 DEF IInv

LEMMA RestoreStep ==
  ASSUME IInv, NEW kind \in Attempts, NEW succeeded \in BOOLEAN,
         RestoreActivity(kind, succeeded)
  PROVE  IInv'
<1>1. /\ state \in ContainerStates /\ Shown(state) /\ state.attention = "none"
      /\ state.overlay = None /\ journal = "outcome" /\ candidate = None
      /\ NextOperation \in Nat
      /\ state' = [state EXCEPT !.phase = "outcome_pending", !.operation = NextOperation,
                                !.last = NextOperation, !.kind = kind]
      /\ activity' = [operation |-> NextOperation, kind |-> kind,
                      done |-> IF succeeded THEN "yes" ELSE "no"]
      /\ UNCHANGED <<document, candidate, session, wedged, outside, duties, raised>>
  BY DEF RestoreActivity, Ready, MayRestore, Restore, IInv, TypeOK, NextOperation,
         ContainerStates
<1>2. state' \in ContainerStates
  BY <1>1 DEF ContainerStates, Phases, Kinds
<1>3. activity' \in Activities /\ activity' # None
  BY <1>1, NoneIsNoRecord DEF Activities
<1>4. TypeOK'
  BY <1>1, <1>2, <1>3 DEF IInv, TypeOK, document, outside, duties
<1>5. /\ EditingAuthorized' /\ OnePublication' /\ NeverWedged' /\ HostInStep'
      /\ ConfirmedIsTarget'
  BY <1>1, <1>3
     DEF IInv, EditingAuthorized, OnePublication, NeverWedged, HostInStep,
         ConfirmedIsTarget, document, outside, duties, ContainerStates
<1>6. /\ Lifetime' /\ ActiveSlot' /\ Overlay' /\ CandidateFits' /\ StillRaised'
      /\ OutcomeKept'
  BY <1>1
     DEF IInv, Lifetime, ActiveSlot, Overlay, CandidateFits, StillRaised, OutcomeKept,
         document, outside, duties, ContainerStates, Shown, Present
<1> QED BY <1>4, <1>5, <1>6 DEF IInv

-----------------------------------------------------------------------------
(* Publication and its result *)

\* What is known while a candidate is retained.
LEMMA CandidateFacts ==
  ASSUME IInv, candidate # None
  PROVE  /\ candidate \in Candidates /\ candidate.image \in Images
         /\ candidate.change \in Changes /\ state.kind \in KindOf(candidate.change)
         /\ state \in ContainerStates /\ state.operation \in Nat
         /\ state.phase \in {"publishing", "recovery_required"}
         /\ state.attention = "none" /\ state.overlay = None /\ target = None /\ ~raised
         /\ state.open /\ unlocked \in Decodings /\ unlocked # None /\ text \in Texts
         /\ unlocked.slot \in Slots /\ committed \in Images
         /\ ~candidate.removes => unlocked.slot \in Present(candidate.image)
<1>1. /\ candidate \in Candidates /\ candidate.image \in Images
      /\ candidate.change \in Changes /\ candidate.operation \in Nat
  BY DEF IInv, TypeOK, Candidates
<1>2. /\ state \in ContainerStates /\ state.operation \in Nat
      /\ state.phase \in {"publishing", "recovery_required"}
      /\ state.attention = "none" /\ state.overlay = None
  BY <1>1 DEF IInv, TypeOK, OnePublication
<1>3. target = None /\ ~raised
  BY <1>2 DEF IInv, Overlay, StillRaised
<1>4. /\ unlocked # None /\ state.kind \in KindOf(candidate.change)
      /\ ~candidate.removes => unlocked.slot \in Present(candidate.image)
  BY DEF IInv, CandidateFits
<1>5. /\ state.open /\ unlocked \in Decodings /\ text \in Texts /\ unlocked.slot \in Slots
  BY <1>4 DEF IInv, TypeOK, ActiveSlot, Decodings
<1>6. committed \in Images
  BY <1>5 DEF IInv, TypeOK, Lifetime
<1> QED BY <1>1, <1>2, <1>3, <1>4, <1>5, <1>6

LEMMA WriteStep == IInv /\ WriteCandidate => IInv'
<1> SUFFICES ASSUME IInv, WriteCandidate PROVE IInv'
  OBVIOUS
<1>1. /\ candidate # None /\ journal = "candidate"
      /\ disk' = candidate.image /\ written' = TRUE
      /\ UNCHANGED <<state, document, operations, duties, raised>>
  BY DEF WriteCandidate
<1>2. TypeOK'
  BY <1>1, CandidateFacts DEF IInv, TypeOK, document, operations, duties
<1>3. /\ EditingAuthorized' /\ OnePublication' /\ NeverWedged' /\ HostInStep'
      /\ ConfirmedIsTarget'
  BY <1>1
     DEF IInv, EditingAuthorized, OnePublication, NeverWedged, HostInStep,
         ConfirmedIsTarget, document, operations, duties
<1>4. /\ Lifetime' /\ ActiveSlot' /\ Overlay' /\ CandidateFits' /\ StillRaised'
      /\ OutcomeKept'
  BY <1>1
     DEF IInv, Lifetime, ActiveSlot, Overlay, CandidateFits, StillRaised, OutcomeKept,
         document, operations, duties, Present
<1> QED BY <1>2, <1>3, <1>4 DEF IInv

LEMMA AmbiguousStep == IInv /\ AcknowledgeAmbiguous => IInv'
<1> SUFFICES ASSUME IInv, AcknowledgeAmbiguous PROVE IInv'
  OBVIOUS
<1>1. /\ state \in ContainerStates /\ state.phase = "publishing" /\ candidate # None
      /\ state' = [state EXCEPT !.phase = "recovery_required"]
      /\ heartbeat' = heartbeat /\ display' = display /\ journal' = journal
      /\ UNCHANGED <<document, operations, outside, raised>>
  BY DEF AcknowledgeAmbiguous, Ambiguous, AmbiguousEffects, HostDoes, IInv, TypeOK
<1>2. state' \in ContainerStates
  BY <1>1 DEF ContainerStates, Phases
<1>3. TypeOK'
  BY <1>1, <1>2 DEF IInv, TypeOK, document, operations, outside
<1>4. /\ EditingAuthorized' /\ OnePublication' /\ NeverWedged' /\ HostInStep'
      /\ ConfirmedIsTarget'
  BY <1>1
     DEF IInv, EditingAuthorized, OnePublication, NeverWedged, HostInStep,
         ConfirmedIsTarget, document, operations, outside, ContainerStates
<1>5. /\ Lifetime' /\ ActiveSlot' /\ Overlay' /\ CandidateFits' /\ StillRaised'
      /\ OutcomeKept'
  BY <1>1
     DEF IInv, Lifetime, ActiveSlot, Overlay, CandidateFits, StillRaised, OutcomeKept,
         document, operations, outside, ContainerStates, ClosedState, Present
<1> QED BY <1>3, <1>4, <1>5 DEF IInv

\* A candidate that did not reach the target leaves the confirmed image in force.
LEMMA RejectStep == ASSUME IInv, candidate # None, ~written, Reject PROVE IInv'
<1> DEFINE failed == Rejected(state)
<1>1. /\ state \in ContainerStates /\ state.phase # "idle" /\ state.open
      /\ state.attention = "none" /\ state.overlay = None /\ target = None /\ ~raised
      /\ state' = failed /\ candidate' = None
      /\ UNCHANGED <<document, activity, session, wedged, outside, raised>>
  BY CandidateFacts DEF Reject
<1>2. /\ heartbeat' = heartbeat /\ display' = display
      /\ journal' = IF state.kind = "activity_outcome" THEN "outcome" ELSE "nothing"
  BY DEF Reject, HostDoes, RejectedEffects, IInv, TypeOK
<1>3. /\ failed \in ContainerStates
      /\ failed.phase = IF state.kind = "activity_outcome" THEN "outcome_pending"
                                                           ELSE "idle"
      /\ failed.open = state.open /\ failed.unlocked = state.unlocked
      /\ failed.slot = state.slot /\ failed.rights = state.rights
      /\ failed.overlay = state.overlay /\ failed.editing = state.editing
      /\ failed.lease = state.lease /\ failed.attention = state.attention
  BY ZenonT(60), <1>1 DEF Rejected, Cleared, ContainerStates, Phases
<1>4. activity # None <=> state.kind = "activity_outcome"
  BY CandidateFacts DEF IInv, OnePublication
<1> HIDE DEF failed
<1>5. TypeOK'
  BY <1>1, <1>2, <1>3 DEF IInv, TypeOK, document, outside
<1>6. /\ EditingAuthorized' /\ OnePublication' /\ NeverWedged' /\ HostInStep'
      /\ ConfirmedIsTarget'
  BY <1>1, <1>2, <1>3, <1>4
     DEF IInv, EditingAuthorized, OnePublication, NeverWedged, HostInStep,
         ConfirmedIsTarget, document, outside
<1>7. /\ Lifetime' /\ ActiveSlot' /\ Overlay' /\ CandidateFits' /\ StillRaised'
      /\ OutcomeKept'
  BY <1>1, <1>2, <1>3, <1>4
     DEF IInv, Lifetime, ActiveSlot, Overlay, CandidateFits, StillRaised, OutcomeKept,
         document, outside, Present
<1> QED BY <1>5, <1>6, <1>7 DEF IInv

\* The state and effects a verified candidate leaves, its follow-up included.
LEMMA Settles ==
  ASSUME IInv, candidate # None, NEW next, next = FollowUp(Verified(state))
  PROVE  /\ next.may
         /\ next.state \in ContainerStates /\ next.state.open = TRUE
         /\ next.state.overlay = None /\ next.state.attention = "none"
         /\ next.state.phase = IF candidate.change = "attempt"
                               THEN "awaiting_host_action" ELSE "idle"
         /\ next.state.unlocked = (state.unlocked /\ ~candidate.removes)
         /\ next.state.slot = IF candidate.removes THEN None ELSE state.slot
         /\ next.state.editing =>
              /\ ~candidate.removes /\ state.unlocked /\ "edit" \in next.state.rights
              /\ next.state.lease = "held"
              /\ candidate.change \in {"slot", "lease"} \/ state.editing
              /\ candidate.change = "slot" =>
                   ~Decoded(candidate.image, unlocked.slot).invited
         /\ next.state.editing <=>
              \/ state.editing /\ "stop_heartbeat" \notin next.effects
              \/ "start_heartbeat" \in next.effects
         /\ candidate.removes => "clear_display" \in next.effects
         /\ "journal_candidate" \notin next.effects
         /\ "journal_activity_outcome" \notin next.effects
         /\ "clear_journal" \notin next.effects
<1> DEFINE settled == Verified(state)
           slot == Decoded(candidate.image, unlocked.slot)
           held == candidate.session # None
<1>1. /\ settled \in ContainerStates /\ settled.open = TRUE
      /\ settled.overlay = None /\ settled.attention = "none"
      /\ settled.phase = IF candidate.change = "attempt" THEN "awaiting_host_action"
                                                         ELSE "idle"
      /\ settled.unlocked = state.unlocked /\ settled.slot = state.slot
      /\ settled.editing = state.editing /\ settled.rights = state.rights
      /\ settled.lease = state.lease
  <2>1. (state.kind \in Attempts) <=> candidate.change = "attempt"
    BY CandidateFacts DEF KindOf, Attempts, Changes
  <2> QED
    BY <2>1, CandidateFacts DEF Verified, Cleared, ContainerStates, Phases
<1> HIDE DEF settled
<1>2. state.editing => "edit" \in state.rights /\ state.lease = "held" /\ state.unlocked
  BY DEF IInv, EditingAuthorized
<1>3. /\ candidate \in Candidates /\ candidate.removes \in BOOLEAN
      /\ state.unlocked \in BOOLEAN /\ state.editing \in BOOLEAN
  BY CandidateFacts DEF Candidates, ContainerStates
<1>4. CASE candidate.removes
  <2>1. /\ candidate.change = "slot" /\ state.unlocked
    BY <1>4 DEF IInv, CandidateFits
  <2>2. next = [may |-> MayLock(settled), state |-> Lock(settled),
                effects |-> LockEffects(settled)]
    BY <1>4, <2>1 DEF FollowUp, settled
  <2>3. MayLock(settled)
    BY <1>1, <2>1 DEF MayLock, Shown
  <2>4. /\ Lock(settled) \in ContainerStates /\ Lock(settled).open = TRUE
        /\ Lock(settled).overlay = None /\ Lock(settled).attention = "none"
        /\ Lock(settled).phase = "idle" /\ Lock(settled).unlocked = FALSE
        /\ Lock(settled).slot = None /\ Lock(settled).editing = FALSE
    BY <1>1, <2>1 DEF Lock, ContainerStates, Permissions
  <2>5. /\ "start_heartbeat" \notin LockEffects(settled)
        /\ state.editing => "stop_heartbeat" \in LockEffects(settled)
        /\ "clear_display" \in LockEffects(settled)
        /\ "journal_candidate" \notin LockEffects(settled)
        /\ "journal_activity_outcome" \notin LockEffects(settled)
        /\ "clear_journal" \notin LockEffects(settled)
    BY <1>1 DEF LockEffects, Stop
  <2>6. /\ next.may /\ next.state = Lock(settled)
        /\ next.effects = LockEffects(settled)
    BY <2>2, <2>3
  <2> QED BY <1>3, <1>4, <2>1, <2>4, <2>5, <2>6
<1>5. CASE ~candidate.removes /\ candidate.change = "slot"
  <2> DEFINE after == RefreshRights(settled, slot.rights, ~slot.invited)
             effects == RefreshEffects(settled, slot.rights, ~slot.invited)
  <2>1. state.unlocked
    BY <1>5 DEF IInv, CandidateFits
  <2>2. next = [may |-> MayRefreshRights(settled, slot.rights), state |-> after,
                effects |-> effects]
    BY <1>5 DEF FollowUp, settled
  <2>3. /\ slot.rights \in Permissions /\ slot.invited \in BOOLEAN
        /\ WellFormed(slot.rights)
    BY <1>5, CandidateFacts, SlotOfImage DEF Decoded, Decodings
  <2>4. MayRefreshRights(settled, slot.rights)
    BY <1>1, <1>5, <2>1, <2>3 DEF MayRefreshRights, Shown
  <2>5. /\ after \in ContainerStates /\ after.open = TRUE /\ after.overlay = None
        /\ after.attention = "none" /\ after.phase = "idle"
        /\ after.unlocked = state.unlocked /\ after.slot = state.slot
        /\ after.rights = slot.rights /\ after.lease = state.lease
        /\ after.editing = (state.editing
                              /\ ~LosesEdit(settled, slot.rights, ~slot.invited))
    BY ZenonT(60), <1>1, <1>5, <2>3 DEF RefreshRights, LosesEdit, ContainerStates
  <2>6. /\ "start_heartbeat" \notin effects
        /\ "stop_heartbeat" \in effects
             <=> LosesEdit(settled, slot.rights, ~slot.invited)
        /\ "journal_candidate" \notin effects
        /\ "journal_activity_outcome" \notin effects
        /\ "clear_journal" \notin effects
    BY DEF RefreshEffects
  <2>7. after.editing => "edit" \in slot.rights /\ ~slot.invited /\ state.editing
    BY <1>1, <2>3, <2>5 DEF LosesEdit
  <2> HIDE DEF after, effects, slot
  <2>8. /\ next.may /\ next.state = after /\ next.effects = effects
    BY <2>2, <2>4
  <2>9. after.editing <=> \/ state.editing /\ "stop_heartbeat" \notin effects
                          \/ "start_heartbeat" \in effects
    BY <2>5, <2>6
  <2> QED BY <1>2, <1>3, <1>5, <2>1, <2>5, <2>6, <2>7, <2>8, <2>9 DEF slot
<1>6. CASE candidate.change = "lease"
  <2> DEFINE after == PublishLease(settled, held)
             effects == PublishLeaseEffects(settled, held)
  <2>1. ~candidate.removes /\ (held => state.unlocked)
    BY <1>6 DEF IInv, CandidateFits
  <2>2. next = [may |-> MayPublishLease(settled, held), state |-> after,
                effects |-> effects]
    BY <1>6, <2>1 DEF FollowUp, settled
  <2>3. MayPublishLease(settled, held)
    BY <1>1, <1>6, <2>1 DEF MayPublishLease, Idle
  <2>4. /\ after \in ContainerStates /\ after.open = TRUE /\ after.overlay = None
        /\ after.attention = "none" /\ after.phase = "idle"
        /\ after.unlocked = state.unlocked /\ after.slot = state.slot
        /\ after.rights = state.rights
        /\ after.lease = IF held THEN "held" ELSE "none"
        /\ after.editing = (held /\ state.unlocked /\ "edit" \in state.rights)
    <3>1. held \in BOOLEAN
      OBVIOUS
    <3> HIDE DEF held
    <3>2. after = [settled EXCEPT !.lease = IF held THEN "held" ELSE "none",
                     !.editing = held /\ state.unlocked /\ "edit" \in state.rights]
      BY <1>1 DEF PublishLease
    <3>3. (IF held THEN "held" ELSE "none") \in Leases
      BY DEF Leases
    <3> QED BY ZenonT(60), <1>1, <1>3, <1>6, <3>1, <3>2, <3>3 DEF ContainerStates
  <2>5. /\ "start_heartbeat" \in effects <=> after.editing /\ ~state.editing
        /\ "stop_heartbeat" \in effects <=> ~after.editing /\ state.editing
        /\ "journal_candidate" \notin effects
        /\ "journal_activity_outcome" \notin effects
        /\ "clear_journal" \notin effects
    BY <1>1, <2>4, CandidateFacts DEF PublishLeaseEffects, ContainerStates
  <2> HIDE DEF after, effects
  <2>6. next.may /\ next.state = after /\ next.effects = effects
    BY <2>2, <2>3
  <2> QED BY <1>3, <1>6, <2>1, <2>4, <2>5, <2>6
<1>7. CASE candidate.change \notin {"slot", "lease"}
  <2>1. ~candidate.removes
    BY <1>7 DEF IInv, CandidateFits
  <2>2. next = [may |-> TRUE, state |-> settled, effects |-> {}]
    BY <1>7, <2>1 DEF FollowUp, settled
  <2> QED BY <1>1, <1>2, <1>3, <1>7, <2>1, <2>2
<1> QED BY <1>3, <1>4, <1>5, <1>6, <1>7

\* A verified candidate is adopted and its follow-up is never refused.
LEMMA AdoptStep == ASSUME IInv, candidate # None, written, Adopt PROVE IInv'
<1> DEFINE next == FollowUp(Verified(state))
           slot == Decoded(candidate.image, unlocked.slot)
<1>1. /\ next.may
      /\ next.state \in ContainerStates /\ next.state.open = TRUE
      /\ next.state.overlay = None /\ next.state.attention = "none"
      /\ next.state.phase = IF candidate.change = "attempt"
                            THEN "awaiting_host_action" ELSE "idle"
      /\ next.state.unlocked = (state.unlocked /\ ~candidate.removes)
      /\ next.state.slot = IF candidate.removes THEN None ELSE state.slot
  BY Settles
<1>2. /\ next.state.editing =>
           /\ ~candidate.removes /\ state.unlocked /\ "edit" \in next.state.rights
           /\ next.state.lease = "held"
           /\ candidate.change \in {"slot", "lease"} \/ state.editing
           /\ candidate.change = "slot" => ~slot.invited
      /\ next.state.editing <=>
           \/ state.editing /\ "stop_heartbeat" \notin next.effects
           \/ "start_heartbeat" \in next.effects
      /\ candidate.removes => "clear_display" \in next.effects
  BY Settles
<1>3. /\ "journal_candidate" \notin next.effects
      /\ "journal_activity_outcome" \notin next.effects
      /\ "clear_journal" \notin next.effects
  BY Settles
<1> HIDE DEF next
<1>4. /\ committed' = candidate.image /\ candidate' = None
      /\ unlocked' = IF candidate.removes THEN None ELSE slot
      /\ text' = AdoptedText
      /\ activity' = IF candidate.change = "attempt"
                     THEN [operation |-> state.operation, kind |-> state.kind,
                           done |-> "unknown"]
                     ELSE IF state.kind = "activity_outcome" THEN None ELSE activity
      /\ session' = IF candidate.change = "lease" THEN candidate.session ELSE session
      /\ state' = next.state /\ wedged' = FALSE
      /\ HostDoes(VerifiedEffects(state) \cup next.effects)
      /\ UNCHANGED <<target, generation, outside, raised>>
  BY <1>1 DEF Adopt, next
<1>5. /\ candidate.removes \in BOOLEAN /\ candidate.session \in OwnSessions \cup {None}
      /\ candidate.image \in Images /\ candidate.image # None
      /\ candidate.change \in Changes
      /\ state.operation \in Nat /\ state.unlocked \in BOOLEAN
      /\ state.kind \in KindOf(candidate.change)
      /\ target = None /\ state.overlay = None /\ ~raised
      /\ unlocked # None /\ unlocked.slot \in Slots /\ text \in Texts
      /\ disk = candidate.image
  BY CandidateFacts, NoneIsNoRecord
     DEF Candidates, ContainerStates, IInv, CandidateFits
<1>6. /\ ~candidate.removes =>
           /\ slot \in Decodings /\ slot # None /\ slot.slot = unlocked.slot
           /\ slot.slot \in Present(candidate.image)
           /\ slot.invited = (slot.slot \in candidate.image.invited)
  <2>1. ~candidate.removes => slot \in Decodings /\ slot # None
    BY <1>5, CandidateFacts, SlotOfImage
  <2>2. /\ slot.slot = unlocked.slot
        /\ slot.invited = (slot.slot \in candidate.image.invited)
    BY DEF Decoded
  <2> QED BY <2>1, <2>2, CandidateFacts
<1>7. slot.invited = unlocked.invited \/ candidate.change = "slot"
  BY <1>5, CandidateFacts DEF Decoded, IInv, ActiveSlot, CandidateFits
<1>8. activity' # None <=> candidate.change = "attempt"
  <2>1. CASE candidate.change = "attempt"
    <3>1. state.kind \in Attempts
      BY <1>5, <2>1 DEF KindOf
    <3>2. activity' \in Activities
      BY <1>4, <1>5, <2>1, <3>1 DEF Activities
    <3> QED BY <2>1, <3>2, NoneIsNoRecord
  <2>2. CASE candidate.change # "attempt"
    BY <1>4, <2>2, CandidateFacts DEF IInv, OnePublication
  <2> QED BY <2>1, <2>2
<1>9. /\ activity' \in Activities \cup {None}
      /\ activity' # None => activity'.done = "unknown"
  <2>1. CASE candidate.change = "attempt"
    <3>1. state.kind \in Attempts
      BY <1>5, <2>1 DEF KindOf
    <3> QED BY <1>4, <1>5, <2>1, <3>1 DEF Activities
  <2>2. CASE candidate.change # "attempt"
    BY <1>8, <2>2
  <2> QED BY <2>1, <2>2
<1>10. /\ heartbeat' = next.state.editing
       /\ display' \in BOOLEAN
       /\ display' => display /\ ~candidate.removes
       /\ journal' = "nothing"
  <2>1. /\ "start_heartbeat" \notin VerifiedEffects(state)
        /\ "stop_heartbeat" \notin VerifiedEffects(state)
        /\ "clear_display" \notin VerifiedEffects(state)
        /\ "journal_candidate" \notin VerifiedEffects(state)
        /\ "journal_activity_outcome" \notin VerifiedEffects(state)
        /\ "clear_journal" \in VerifiedEffects(state)
    BY DEF VerifiedEffects
  <2>2. journal' = "nothing"
    BY <1>3, <1>4, <2>1 DEF HostDoes
  <2>3. /\ display' \in BOOLEAN
        /\ display' => display /\ ~candidate.removes
    BY <1>2, <1>4, <2>1 DEF HostDoes, IInv, TypeOK
  <2>4. heartbeat' \in BOOLEAN /\ heartbeat = state.editing /\ next.state.editing \in BOOLEAN
    BY <1>1, <1>4 DEF HostDoes, IInv, TypeOK, HostInStep, ContainerStates
  <2>5. heartbeat' <=> next.state.editing
    BY <1>2, <1>4, <2>1, <2>4 DEF HostDoes
  <2>6. heartbeat' = next.state.editing
    BY <2>4, <2>5
  <2> QED BY <2>2, <2>3, <2>6
<1> HIDE DEF slot
<1>11. TypeOK'
  <2>1. text' \in Texts
    BY <1>4, <1>5 DEF AdoptedText, Images
  <2>2. session' \in OwnSessions \cup {None} /\ unlocked' \in Decodings \cup {None}
    BY <1>4, <1>5, <1>6 DEF IInv, TypeOK
  <2>3. heartbeat' \in BOOLEAN
    BY <1>1, <1>10 DEF ContainerStates
  <2> QED
    BY <1>1, <1>4, <1>5, <1>9, <1>10, <2>1, <2>2, <2>3 DEF IInv, TypeOK, outside
<1>12. EditingAuthorized'
  <2> SUFFICES ASSUME next.state.editing
               PROVE  unlocked' # None /\ ~unlocked'.invited
    BY <1>1, <1>2, <1>4, <1>5 DEF EditingAuthorized
  <2>1. unlocked' = slot /\ unlocked' # None
    BY <1>2, <1>4, <1>6
  <2>2. CASE candidate.change = "slot"
    BY <1>2, <2>1, <2>2
  <2>3. CASE candidate.change # "slot"
    BY <1>2, <1>7, <2>1, <2>3 DEF IInv, EditingAuthorized, CandidateFits
  <2> QED BY <2>2, <2>3
<1>13. OnePublication'
  BY <1>1, <1>4, <1>8 DEF OnePublication
<1>14. NeverWedged' /\ HostInStep' /\ ConfirmedIsTarget'
  BY <1>1, <1>4, <1>5, <1>10
     DEF NeverWedged, HostInStep, ConfirmedIsTarget, IInv, outside
<1>15. Lifetime'
  BY <1>1, <1>4, <1>5, <1>6, NoneIsNoSlot DEF Lifetime, IInv
<1>16. ActiveSlot'
  <2>1. text' \in Texts
    BY <1>4, <1>5 DEF AdoptedText, Images
  <2> QED BY <1>1, <1>4, <1>5, <1>6, <2>1 DEF ActiveSlot, Present
<1>17. Overlay' /\ CandidateFits' /\ StillRaised' /\ OutcomeKept'
  BY <1>1, <1>4, <1>5, <1>9
     DEF Overlay, CandidateFits, StillRaised, OutcomeKept
<1> QED
  BY <1>11, <1>12, <1>13, <1>14, <1>15, <1>16, <1>17 DEF IInv

-----------------------------------------------------------------------------
(* Every step *)

LEMMA AccessStep == IInv /\ Access => IInv'
BY OpenStep, UnlockStep, LockStep, CloseStep, ShowStep, TargetStep, RaiseStep DEF Access

LEMMA PrepareStep == IInv /\ Prepare => IInv'
BY ReleaseStep, ConfirmStep, SubmitStep, SaveStep, MergeStep, DiscardStep,
   CompactionStep, LeaseSteps
   DEF Prepare

LEMMA EventStep == IInv /\ PrepareEvents => IInv'
BY SlotSteps, AttemptStep, CompleteStep, RestoreStep, OutcomeStep DEF PrepareEvents

LEMMA ReportStep == IInv /\ Report => IInv'
BY WriteStep, AdoptStep, RejectStep, AmbiguousStep
   DEF Report, AcknowledgeVerified, AcknowledgeFailure, ResolvePublished,
       ResolveUnpublished

LEMMA StutterStep == IInv /\ UNCHANGED vars => IInv'
BY DEF vars, document, operations, outside, duties, IInv, TypeOK, EditingAuthorized,
       OnePublication, NeverWedged, HostInStep, ConfirmedIsTarget, Lifetime, ActiveSlot,
       Overlay, CandidateFits, StillRaised, OutcomeKept, Present

\* The container and its host keep the inductive invariant.
THEOREM Inductive == Spec => []IInv
<1>1. Init => IInv
  BY InitHolds
<1>2. IInv /\ [Next]_vars => IInv'
  BY AccessStep, PrepareStep, EventStep, ReportStep, StutterStep DEF Next
<1> QED BY <1>1, <1>2, PTL DEF Spec

\* Every variable keeps its type, whatever the slots, rights and texts are.
THEOREM TypeCorrect == Spec => []TypeOK
<1>1. IInv => TypeOK
  BY DEF IInv
<1> QED BY <1>1, Inductive, PTL

\* Editing is always backed by an unlocked slot that may edit and holds the
\* lease, and a save in flight by the session it was prepared in.
THEOREM EditingStaysAuthorized == Spec => []EditingAuthorized
<1>1. IInv => EditingAuthorized
  BY DEF IInv
<1> QED BY <1>1, Inductive, PTL

\* The candidate, the publication phase and the pending activity agree.
THEOREM OnePublicationAtATime == Spec => []OnePublication
<1>1. IInv => OnePublication
  BY DEF IInv
<1> QED BY <1>1, Inductive, PTL

\* No sequence of calls makes the transition that follows an adoption refuse.
THEOREM NeverWedges == Spec => []NeverWedged
<1>1. IInv => NeverWedged
  BY DEF IInv
<1> QED BY <1>1, Inductive, PTL

\* The heartbeat runs just while the session edits and no text of a locked
\* container is shown.
THEOREM HostStaysInStep == Spec => []HostInStep
<1>1. IInv => HostInStep
  BY DEF IInv
<1> QED BY <1>1, Inductive, PTL

\* The confirmed image is the target's while nothing is being published.
THEOREM ConfirmedStaysTarget == Spec => []ConfirmedIsTarget
<1>1. IInv => ConfirmedIsTarget
  BY DEF IInv
<1> QED BY <1>1, Inductive, PTL

\* After a decision was raised nothing is published before a close.
THEOREM RaisedStaysBlocked == Spec => []RaisedBlocks
<1>1. IInv => RaisedBlocks
  BY DEF IInv, StillRaised, RaisedBlocks, OnePublication
<1> QED BY <1>1, Inductive, PTL

-----------------------------------------------------------------------------
(* Two promises about steps *)

\* What changes the pending activity.
LEMMA ActivityChanges ==
  ASSUME Next, activity' # activity
  PROVE  \/ CloseContainer \/ \E b \in BOOLEAN : CompleteActivity(b)
         \/ \E k \in Attempts, b \in BOOLEAN : RestoreActivity(k, b)
         \/ candidate # None /\ written /\ Adopt
<1>1. CASE Access
  BY <1>1 DEF Access, OpenDocument, UnlockDocument, LockContainer, ShowText,
              ApplyTargetDocument, RaiseAttention, operations
<1>2. CASE Prepare
  BY <1>2 DEF Prepare, ReleaseEdit, ConfirmEditLease, SubmitContent, PrepareSave,
              PrepareMerge, PrepareDiscard, PrepareCompaction, AcquireLease, RenewLease,
              ReleaseLease, TakeOverLease, PrepareLease, Retain, Propose, operations
<1>3. CASE PrepareEvents
  BY <1>3 DEF PrepareEvents, ChangeOwnSlot, ClaimInvitation, AddInvitation,
              UpdatePermissions, RemoveSlot, PrepareSlots, PrepareAttempt,
              PrepareOutcome, Retain, Propose
<1>4. CASE Report
  BY <1>4 DEF Report, WriteCandidate, AcknowledgeVerified, AcknowledgeFailure,
              AcknowledgeAmbiguous, ResolvePublished, ResolveUnpublished, Reject,
              operations
<1> QED BY <1>1, <1>2, <1>3, <1>4 DEF Next

\* What can end a retained candidate.
LEMMA CandidateEnds ==
  ASSUME Next, candidate # None, candidate' = None
  PROVE  CloseContainer \/ Adopt \/ Reject
<1>1. CASE Access
  BY <1>1 DEF Access, OpenDocument, UnlockDocument, LockContainer, ShowText,
              ApplyTargetDocument, RaiseAttention, operations
<1>2. CASE Prepare
  BY <1>2 DEF Prepare, ReleaseEdit, ConfirmEditLease, SubmitContent, PrepareSave,
              PrepareMerge, PrepareDiscard, PrepareCompaction, AcquireLease, RenewLease,
              ReleaseLease, TakeOverLease, PrepareLease, MayEdit, Ready, operations
<1>3. CASE PrepareEvents
  BY <1>3 DEF PrepareEvents, ChangeOwnSlot, ClaimInvitation, AddInvitation,
              UpdatePermissions, RemoveSlot, PrepareSlots, PrepareAttempt,
              CompleteActivity, RestoreActivity, PrepareOutcome, Ready
<1>4. CASE Report
  BY <1>4 DEF Report, WriteCandidate, AcknowledgeVerified, AcknowledgeFailure,
              AcknowledgeAmbiguous, ResolvePublished, ResolveUnpublished, operations
<1> QED BY <1>1, <1>2, <1>3, <1>4 DEF Next

LEMMA KnownOutcome ==
  ASSUME IInv, IInv', [Next]_vars, activity # None, activity.done # "unknown"
  PROVE  IF state'.open THEN journal' # "nothing" \/ committed'.attempt = None
         ELSE journal' = "outcome"
<1>1. CASE activity' = activity
  <2>1. state'.open
    BY <1>1, ClosedFields DEF IInv, Lifetime, OnePublication
  <2> QED BY <1>1, <2>1 DEF IInv, OutcomeKept
<1>2. CASE activity' # activity
  <2>1. Next
    BY <1>2 DEF vars, operations
  <2>2. CASE CloseContainer
    <3>1. ~state'.open
      BY <2>2, ClosedFields DEF CloseContainer
    <3>2. "journal_activity_outcome" \in CloseEffects(state)
      BY <2>2 DEF CloseContainer, MayClose, CloseEffects, IInv, OnePublication
    <3>3. "journal_candidate" \notin CloseEffects(state)
      BY DEF CloseEffects, Stop
    <3> QED BY <2>2, <3>1, <3>2, <3>3 DEF CloseContainer, HostDoes
  <2>3. CASE candidate # None /\ written /\ Adopt
    <3>1. candidate.change = "outcome"
      <4>1. state.kind = "activity_outcome"
        BY <2>3, CandidateFacts DEF IInv, OnePublication
      <4> QED BY <2>3, <4>1, CandidateFacts DEF KindOf, Attempts, Changes
    <3>2. candidate.image.attempt = None /\ committed' = candidate.image
      BY <2>3, <3>1 DEF Adopt, IInv, CandidateFits
    <3>3. state'.open
      <4>1. FollowUp(Verified(state)).may /\ FollowUp(Verified(state)).state.open = TRUE
        BY <2>3, Settles
      <4> QED BY <2>3, <4>1 DEF Adopt
    <3> QED BY <3>2, <3>3
  <2>4. CASE \E b \in BOOLEAN : CompleteActivity(b)
    BY <2>4 DEF CompleteActivity
  <2>5. CASE \E k \in Attempts, b \in BOOLEAN : RestoreActivity(k, b)
    BY <2>5 DEF RestoreActivity
  <2> QED BY <1>2, <2>1, <2>2, <2>3, <2>4, <2>5, ActivityChanges
<1> QED BY <1>1, <1>2

\* The outcome of an external action is journaled until its event is confirmed.
THEOREM OutcomeStaysJournaled == Spec => OutcomeJournaled
<1>1. IInv /\ IInv' /\ [Next]_vars
        => [activity # None /\ activity.done # "unknown" =>
              IF state'.open
              THEN journal' # "nothing" \/ committed'.attempt = None
              ELSE journal' = "outcome"]_vars
  BY KnownOutcome
<1> QED BY <1>1, Inductive, PTL DEF Spec, OutcomeJournaled

\* Text submitted after a candidate was prepared outlives the candidate.
THEOREM NewerTextIsKept == Spec => NewerTextSurvives
<1>1. ASSUME [Next]_vars, candidate # None, candidate' = None, state'.open,
             generation # candidate.generation
      PROVE  text' = text
  <2>1. CASE UNCHANGED vars
    BY <2>1 DEF vars, document
  <2>2. CASE Next
    <3>1. CASE CloseContainer
      BY <1>1, <3>1, ClosedFields DEF CloseContainer
    <3>2. CASE Adopt
      BY <1>1, <3>2 DEF Adopt, AdoptedText
    <3>3. CASE Reject
      BY <3>3 DEF Reject, document
    <3> QED BY <1>1, <2>2, <3>1, <3>2, <3>3, CandidateEnds
  <2> QED BY <1>1, <2>1, <2>2
<1>2. [Next]_vars =>
        [candidate # None /\ candidate' = None /\ state'.open
           /\ generation # candidate.generation => text' = text]_vars
  BY <1>1
<1> QED BY <1>2, PTL DEF Spec, NewerTextSurvives
=============================================================================
