-------------------------- MODULE DocumentEnvelope --------------------------
(* The encrypted document (revised_v3_container.cpp): one wrapper per        *)
(* password slot, in the order of the slots of the history they unlock, and  *)
(* the slot changes (password_slots.cpp) that keep the two lists in step. A  *)
(* document is [wrappers, graph]; a password opens the wrapper sealed by it. *)
EXTENDS RevisionOperations

Wrapper(password, slot, mustChange) ==
  [password |-> password, slot |-> slot, mustChange |-> mustChange]

\* RevisedV3Container::create: an owner slot, and a recovery slot last if a
\* recovery password is given.
Create(ownerSlot, password, recoverySlot, recovery, who, id, text) ==
  LET wrappers == <<Wrapper(password, ownerSlot, FALSE)>>
        \o (IF recovery = None THEN <<>> ELSE <<Wrapper(recovery, recoverySlot, FALSE)>>)
      role(i) == IF i = 1 THEN "owner" ELSE "recovery"
      slots == [i \in DOMAIN wrappers |->
                  Slot(wrappers[i].slot, role(i), Rights, FALSE)]
  IN [wrappers |-> wrappers, graph |-> Baseline(slots, who, id, text)]

Sealing(doc, password) ==
  {i \in DOMAIN doc.wrappers : doc.wrappers[i].password = password}
\* unlock: the first wrapper the password opens names its slot; the history
\* must decode and agree with the wrappers.
Decodes(doc) == Valid(doc.graph) /\ Len(doc.graph.slots) = Len(doc.wrappers)
Admits(doc, password) ==
  /\ Sealing(doc, password) # {}
  /\ LET i == Min(Sealing(doc, password))
         slot == doc.graph.slots[i]
     IN /\ slot.id = doc.wrappers[i].slot
        /\ slot.role # "ordinary" => ~doc.wrappers[i].mustChange
Session(doc, password) ==
  LET i == Min(Sealing(doc, password))
      slot == doc.graph.slots[i]
  IN [slot EXCEPT !.mustChange = @ \/ doc.wrappers[i].mustChange]

\* replace_graph: the same wrappers over a new history.
ReplaceGraph(doc, graph) == [doc EXCEPT !.graph = graph]

\* replace_slots: the wrapper of the changed slot is sealed anew, the others
\* are copied to their new places.
\* Mutant: the wrapper of an invitation always goes last.
ResealingAtEnd(doc, change, password) ==
  LET fresh == Wrapper(password, change.slots[change.index].id,
                       change.slots[change.index].mustChange)
  IN CASE change.mode = "none" -> doc.wrappers
       [] change.mode = "insert" -> Append(doc.wrappers, fresh)
       [] change.mode = "replace" -> ReplaceAt(doc.wrappers, change.index, fresh)
       [] change.mode = "remove" -> RemoveAt(doc.wrappers, change.index)
Resealing(doc, change, password) ==
  LET fresh == Wrapper(password, change.slots[change.index].id,
                       change.slots[change.index].mustChange)
  IN CASE change.mode = "none" -> doc.wrappers
       [] change.mode = "insert" -> InsertAt(doc.wrappers, change.index, fresh)
       [] change.mode = "replace" -> ReplaceAt(doc.wrappers, change.index, fresh)
       [] change.mode = "remove" -> RemoveAt(doc.wrappers, change.index)
ReplaceSlots(doc, graph, change, password) ==
  [wrappers |-> Resealing(doc, change, password), graph |-> graph]

-----------------------------------------------------------------------------
(* Slot changes: may the session make it, and what it changes. *)

Change(mode, index, slots, affected, type) ==
  [mode |-> mode, index |-> index, slots |-> slots,
   event |-> [type |-> type, slot |-> affected]]
Grantable(rights) == rights \cap {"add", "remove"} # {} => "edit" \in rights
\* A new password may not open the document already.
Unused(doc, password) == Sealing(doc, password) = {}

MayChangePassword(doc, session, password) ==
  ~session.mustChange /\ Unused(doc, password)
ChangePassword(slots, session) ==
  Change("replace", SlotIndex(slots, session.id), slots, session.id,
         "password-changed")

Ordinary(slots) == {i \in DOMAIN slots : slots[i].role = "ordinary"}
MayInvite(doc, session, slot, rights, password) ==
  /\ ~session.mustChange /\ "add" \in session.rights
  /\ rights \subseteq session.rights /\ Grantable(rights)
  /\ Cardinality(Ordinary(doc.graph.slots)) < 7
  /\ ~HasSlot(doc.graph.slots, slot) /\ Unused(doc, password)
\* An invitation takes its place before the recovery slot.
Invite(slots, slot, rights) ==
  LET index == IF Last(slots).role = "recovery" THEN Len(slots) ELSE Len(slots) + 1
  IN Change("insert", index,
            InsertAt(slots, index, Slot(slot, "ordinary", rights, TRUE)), slot,
            "invitation-created")

MayClaim(doc, session, password) ==
  session.role = "ordinary" /\ session.mustChange /\ Unused(doc, password)
Claim(slots, session) ==
  LET i == SlotIndex(slots, session.id)
  IN Change("replace", i, [slots EXCEPT ![i].mustChange = FALSE], session.id,
            "invitation-claimed")

MayReconcile(session) == ~session.mustChange /\ session.role # "recovery"
Reconcile(slots, session) ==
  Change("none", 1, slots, session.id, "identity-reconciled")

MayUpdate(doc, session, slot, rights) ==
  /\ ~session.mustChange /\ {"add", "remove"} \subseteq session.rights
  /\ HasSlot(doc.graph.slots, slot) /\ Grantable(rights)
  /\ LET affected == doc.graph.slots[SlotIndex(doc.graph.slots, slot)]
     IN affected.role = "ordinary" /\ ~affected.mustChange
UpdatePermissions(slots, slot, rights) ==
  Change("none", 1, [slots EXCEPT ![SlotIndex(slots, slot)].rights = rights], slot,
         "permissions-updated")

MayRemove(doc, session, slot) ==
  /\ ~session.mustChange /\ "remove" \in session.rights
  /\ HasSlot(doc.graph.slots, slot)
  /\ doc.graph.slots[SlotIndex(doc.graph.slots, slot)].role = "ordinary"
RemoveSlot(slots, slot) ==
  LET i == SlotIndex(slots, slot)
  IN Change("remove", i, RemoveAt(slots, i), slot, "slot-removed")

-----------------------------------------------------------------------------
(* MergeSave::create_revised *)

\* Both replicas opened, the same slot, and rights on the target.
MayMergeSave(target, local, targetSession, localSession) ==
  /\ targetSession.id = localSession.id
  /\ ~targetSession.mustChange /\ "edit" \in targetSession.rights
  /\ MayMerge(local.graph, target.graph, targetSession.id)
MergeSave(target, local, who, id, text) ==
  ReplaceGraph(target, Merged(local.graph, target.graph, who, id, text))
=============================================================================
