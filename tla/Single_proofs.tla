---------------------------- MODULE Single_proofs ----------------------------
(***************************************************************************)
(* What each step of CommonReconciler does to the binding between the CR   *)
(* and its object, and from it: a CR that keeps to one backend and one     *)
(* identity never has two live objects, for every value of the constants.  *)
(***************************************************************************)
EXTENDS Rest_proofs

-----------------------------------------------------------------------------
(* What a step does to the pass, as far as the binding is concerned *)

\* The pass is over, or goes on to write a status that records id.
EndedWith(p, id) ==
  \/ pass' = Idle
  \/ /\ pass'.pc = "status" /\ (pass'.fresh => p.fresh) /\ pass'.ref = p.ref
     /\ pass'.obj.pin = p.obj.pin /\ pass'.obj.status.id = id

\* The pass goes on at another step with all it has in memory.
MovedTo(pc) ==
  /\ pass'.pc = pc /\ pass'.obj = pass.obj
  /\ pass'.fresh = pass.fresh /\ pass'.ref = pass.ref

\* The pass goes on with the object a patch answered with.
RefreshedTo(pc, id) ==
  /\ pass'.pc = pc /\ pass'.ref = pass.ref
  /\ pass'.obj.pin \in {store.pin, pass.obj.pin}
  /\ pass'.obj.status.id = id

\* An idle worker holds nothing.
LEMMA IdleFields ==
  /\ Idle.pc = "idle" /\ Idle.ref = AnySpec.ref /\ Idle.fresh = FALSE
  /\ Idle.obj = Absent /\ Absent.pin = NoId /\ Absent.status.id = NoId
  /\ Absent.attempt = FALSE /\ Absent.exists = FALSE
BY DEF Idle, Absent, NoStatus

\* Both ways a pass reports.
LEMMA ReportsWith ==
  ASSUME NEW p \in Passes, NEW v \in Passes, NEW again, NEW q,
         v.fresh => p.fresh, v.ref = p.ref, v.obj.pin = p.obj.pin,
         Conclude(v, again, q) \/ Report(v, again, q)
  PROVE  EndedWith(p, v.obj.status.id)
<1>1. CASE pass' = Idle
  BY <1>1 DEF EndedWith
<1>2. CASE Report(v, again, q)
  <2>1. pass' = [v EXCEPT !.pc = "status", !.again = again]
    BY <1>2 DEF Report
  <2>2. /\ pass'.pc = "status" /\ pass'.fresh = v.fresh /\ pass'.ref = v.ref
        /\ pass'.obj = v.obj
    BY <2>1 DEF Passes
  <2> QED BY <2>2 DEF EndedWith
<1> QED BY <1>1, <1>2 DEF Conclude

\* What a verdict leaves of a pass.
LEMMA VerdictKeeps ==
  ASSUME NEW p \in Passes, NEW g, NEW o, NEW r
  PROVE  LET v == Verdict(p, g, o, r)
         IN /\ v.fresh = p.fresh /\ v.ref = p.ref /\ v.obj.pin = p.obj.pin
            /\ v.obj.status.id = p.obj.status.id
<1> DEFINE st == SetConditionsOnOutcome(p.obj.status, g, o, r)
           ob == [p.obj EXCEPT !.status = st]
<1>1. p.obj \in Objects
  BY DEF Passes
<1>2. Verdict(p, g, o, r) = [p EXCEPT !.obj = ob]
  BY DEF Verdict, Passes
<1> HIDE DEF st
<1>3. ob.pin = p.obj.pin
  BY <1>1 DEF Objects
<1> HIDE DEF ob
<1>4. /\ [p EXCEPT !.obj = ob].fresh = p.fresh /\ [p EXCEPT !.obj = ob].obj = ob
      /\ [p EXCEPT !.obj = ob].ref = p.ref
  BY DEF Passes
<1>5. Verdict(p, g, o, r).obj.status.id = p.obj.status.id
  BY VerdictFields
<1> QED BY <1>2, <1>3, <1>4, <1>5

\* A verdict ends a pass with the id it had.
LEMMA VerdictWith ==
  ASSUME NEW p \in Passes, NEW g \in Nat, NEW o \in Outcomes,
         NEW r \in ConditionReasons, NEW again, NEW q,
         \/ Conclude(Verdict(p, g, o, r), again, q)
         \/ Report(Verdict(p, g, o, r), again, q)
  PROVE  EndedWith(p, p.obj.status.id)
<1> DEFINE v == Verdict(p, g, o, r)
<1>1. v \in Passes
  BY VerdictType
<1>2. /\ v.fresh = p.fresh /\ v.ref = p.ref /\ v.obj.pin = p.obj.pin
      /\ v.obj.status.id = p.obj.status.id
  BY VerdictKeeps
<1> HIDE DEF v
<1>3. Conclude(v, again, q) \/ Report(v, again, q)
  BY DEF v
<1> QED BY <1>1, <1>2, <1>3, ReportsWith

\* An error ends the pass with the id it had.
LEMMA ErrorWith ==
  ASSUME NEW p \in Passes, NEW e \in ErrorValues \cup {NoError}, OnAdapterError(p, e)
  PROVE  EndedWith(p, p.obj.status.id)
<1> DEFINE o == OutcomeOnErr(e)[1]
           r == OutcomeOnErr(e)[2]
           again == IF o = "recoverable" THEN "later" ELSE "none"
<1>1. \/ Conclude(Verdict(p, p.obj.gen, o, r), again, queued)
      \/ Report(Verdict(p, p.obj.gen, o, r), again, queued)
  BY DEF OnAdapterError, GetOutcomeAndSetConditionsOnErr, Verdict
<1>2. p.obj.gen \in Nat /\ o \in Outcomes /\ r \in ConditionReasons
  BY OutcomeOnErrType DEF Passes, Objects
<1> HIDE DEF o, r, again
<1> QED BY <1>1, <1>2, VerdictWith

\* So does a request that failed.
LEMMA FaultWith ==
  ASSUME TypeOK, NEW code \in FaultCodes, OnAdapterError(pass, Failure(code))
  PROVE  EndedWith(pass, pass.obj.status.id)
BY PassFacts, FaultCodesType, FailureType, ErrorWith

\* A failed patch hands the pass back as it is.
LEMMA BackoffWith ==
  ASSUME TypeOK, NEW again, Conclude(pass, again, queued)
  PROVE  EndedWith(pass, pass.obj.status.id)
BY PassFacts, ReportsWith

\* So does one whose answer was lost, except that its copy is outdated.
LEMMA LostAnswerWith ==
  ASSUME TypeOK, Conclude(Outdated(pass), "error", queued)
  PROVE  EndedWith(pass, pass.obj.status.id) /\ pass'.fresh = FALSE
<1>1. /\ Outdated(pass) \in Passes /\ Outdated(pass).obj = pass.obj
      /\ Outdated(pass).fresh = FALSE /\ Outdated(pass).ref = pass.ref
  BY OutdatedType
<1>2. EndedWith(Outdated(pass), pass.obj.status.id)
  BY <1>1, ReportsWith
<1>3. pass'.fresh \in BOOLEAN
  <2>1. pass' \in Passes
    BY <1>1, PassFacts, ConcludeType DEF Agains
  <2> QED BY <2>1 DEF Passes
<1> QED BY <1>1, <1>2, <1>3, IdleFields DEF EndedWith

\* What a patch's answer leaves in memory.
LEMMA RefreshKeeps ==
  ASSUME NEW live \in Objects, NEW mem \in Objects
  PROVE  LET o == Refresh(live, mem)
         IN /\ o.pin \in {live.pin, mem.pin}
            /\ o.status.id = Kept(live.status.id, mem.status.id, NoId)
<1> DEFINE st == [ id |-> Kept(live.status.id, mem.status.id, NoId),
                   hash |-> Kept(live.status.hash, mem.status.hash, NoHash),
                   outcome |-> Kept(live.status.outcome, mem.status.outcome, "none"),
                   reason |-> Kept(live.status.reason, mem.status.reason, "None"),
                   gen |-> Kept(live.status.gen, mem.status.gen, 0) ]
           pin == Kept(live.pin, mem.pin, NoId)
<1>1. st.id = Kept(live.status.id, mem.status.id, NoId) /\ pin \in {live.pin, mem.pin}
  BY DEF Kept
<1>2. Refresh(live, mem) = [live EXCEPT !.pin = pin, !.status = st]
  BY DEF Refresh, Objects
<1> HIDE DEF st, pin
<1> QED BY <1>1, <1>2 DEF Objects

-----------------------------------------------------------------------------
(* The requests and patches of a pass over a live CR *)

\* The Find of a pass without a record hands on what it found.
LEMMA OnNewObjectEffect ==
  ASSUME TypeOK, OnNewObject
  PROVE  /\ pass.pc = "find" /\ UNCHANGED <<versions, remote>>
         /\ \/ EndedWith(pass, pass.obj.status.id)
            \/ /\ MovedTo("mark") /\ pass'.target \in Ids \cup {NoId}
               /\ pass'.target # NoId => pass'.target \in Find(pass.ref, pass.obj.spec)
               /\ pass.obj.pin = NoId
                    => Find(pass.ref, pass.obj.spec) \subseteq {pass'.target}
<1> DEFINE found == Find(pass.ref, pass.obj.spec)
           bind(id) == Goto([pass EXCEPT !.pc = "mark", !.target = id])
           settle(r) == Conclude(Verdict(pass, pass.obj.gen, "terminal", r), "none", queued)
           marks(id) == MovedTo("mark") /\ pass'.target = id
<1>0. /\ pass.pc = "find" /\ UNCHANGED <<versions, remote>>
      /\ pass \in Passes /\ pass.obj.gen \in Nat /\ found \subseteq Ids
  BY PassFacts DEF OnNewObject, Find
<1>1. ASSUME NEW code \in FaultCodes, OnAdapterError(pass, Failure(code))
      PROVE  EndedWith(pass, pass.obj.status.id)
  BY <1>1, FaultWith
<1>2. ASSUME NEW id, bind(id) PROVE marks(id)
  BY <1>0, <1>2 DEF Goto, MovedTo, Passes
<1>3. ASSUME NEW r \in {"SigNozResourceIDMismatch", "Ambiguous"}, settle(r)
      PROVE  EndedWith(pass, pass.obj.status.id)
  BY <1>0, <1>3, VerdictWith DEF Outcomes, ConditionReasons
<1>4. \/ EndedWith(pass, pass.obj.status.id)
      \/ /\ pass.obj.pin # NoId /\ pass.obj.pin \in found /\ marks(pass.obj.pin)
      \/ /\ pass.obj.pin = NoId
         /\ (\E id \in found : found = {id} /\ marks(id)) \/ (found = {} /\ marks(NoId))
  <2> HIDE DEF found, bind, settle, marks
  <2> QED BY <1>1, <1>2, <1>3 DEF OnNewObject, found, bind, settle
<1> HIDE DEF found
<1>5. CASE pass.obj.pin # NoId /\ pass.obj.pin \in found /\ marks(pass.obj.pin)
  BY <1>0, <1>5 DEF found
<1>6. ASSUME pass.obj.pin = NoId, NEW id \in found, found = {id}, marks(id)
      PROVE  /\ MovedTo("mark") /\ pass'.target \in Ids \cup {NoId}
             /\ pass'.target \in found /\ found \subseteq {pass'.target}
  BY <1>0, <1>6
<1>7. CASE pass.obj.pin = NoId /\ found = {} /\ marks(NoId)
  BY <1>0, <1>7 DEF found
<1> QED BY <1>0, <1>4, <1>5, <1>6, <1>7 DEF found

\* So does the Find after a 409.
LEMMA OnConflictEffect ==
  ASSUME TypeOK, OnConflict
  PROVE  /\ pass.pc = "conflictFind" /\ UNCHANGED <<versions, remote>>
         /\ \/ EndedWith(pass, pass.obj.status.id)
            \/ MovedTo("mark") /\ pass'.target \in Find(pass.ref, pass.obj.spec)
<1>0. /\ pass.pc = "conflictFind" /\ UNCHANGED <<versions, remote>>
      /\ pass \in Passes /\ pass.obj.gen \in Nat
  BY PassFacts DEF OnConflict
<1>1. ASSUME NEW code \in FaultCodes, OnAdapterError(pass, Failure(code))
      PROVE  EndedWith(pass, pass.obj.status.id)
  BY <1>1, FaultWith
<1>2. ASSUME NEW id \in Find(pass.ref, pass.obj.spec),
             Goto([pass EXCEPT !.pc = "mark", !.target = id])
      PROVE  MovedTo("mark") /\ pass'.target \in Find(pass.ref, pass.obj.spec)
  BY <1>0, <1>2 DEF Goto, MovedTo, Passes
<1>3. ASSUME NEW o \in {"recoverable", "terminal"}, NEW r \in {"BackendError", "Ambiguous"},
             NEW again, Conclude(Verdict(pass, pass.obj.gen, o, r), again, queued)
      PROVE  EndedWith(pass, pass.obj.status.id)
  BY <1>0, <1>3, VerdictWith DEF Outcomes, ConditionReasons
<1> QED BY <1>0, <1>1, <1>2, <1>3 DEF OnConflict

\* The patch reached the API server.
Patched(o) == Write(o) \/ (store = o /\ UNCHANGED versions)

\* The annotation patch, and what it leads to.
LEMMA AddCreateAttemptEffect ==
  ASSUME TypeOK, AddCreateAttemptAnnotation
  PROVE  /\ pass.pc = "mark"
         /\ UNCHANGED versions \/ Write(Marked(store))
         /\ \/ /\ EndedWith(pass, pass.obj.status.id) /\ UNCHANGED remote
               /\ UNCHANGED versions \/ pass'.fresh = FALSE
            \/ /\ Patched(Marked(store)) /\ pass.target = NoId /\ UNCHANGED remote
               /\ RefreshedTo("create", Kept(store.status.id, pass.obj.status.id, NoId))
            \/ /\ Patched(Marked(store)) /\ pass.target # NoId
               /\ RefreshedTo("read", pass.target)
               /\ remote' = [remote EXCEPT ![pass.target].mine = TRUE]
<1> DEFINE mem == Refresh(Marked(store), pass.obj)
           bound == [mem EXCEPT !.status.id = pass.target]
           patched == Write(Marked(store)) \/ (store.attempt /\ UNCHANGED versions)
<1>0. pass.pc = "mark" /\ (UNCHANGED versions \/ Write(Marked(store)))
  BY AddCreateAttemptType DEF AddCreateAttemptAnnotation
<1>1. pass \in Passes /\ pass.obj \in Objects /\ store \in Objects /\ Marked(store) \in Objects
  BY PassFacts, StoreType, WrittenType
<1>2. Marked(store).pin = store.pin /\ Marked(store).status = store.status
  BY <1>1 DEF Marked, Objects
<1>3. /\ mem.pin \in {store.pin, pass.obj.pin} /\ mem \in Objects
      /\ mem.status.id = Kept(store.status.id, pass.obj.status.id, NoId)
  BY <1>1, <1>2, RefreshKeeps, RefreshType
<1>4. bound.pin = mem.pin /\ bound.status.id = pass.target
  <2> HIDE DEF mem
  <2>1. mem.status \in Statuses
    BY <1>3 DEF Objects
  <2> QED BY <1>3, <2>1 DEF Objects, Statuses
<1>5. ASSUME patched PROVE Patched(Marked(store))
  <2>1. store.attempt => store = Marked(store)
    BY <1>1 DEF Marked, Objects
  <2> QED BY <1>5, <2>1 DEF Patched
<1> HIDE DEF mem, bound
<1>6. ASSUME Goto([pass EXCEPT !.obj = mem, !.fresh = TRUE, !.pc = "create"])
      PROVE  RefreshedTo("create", Kept(store.status.id, pass.obj.status.id, NoId))
  <2>1. /\ pass'.pc = "create" /\ pass'.fresh = TRUE /\ pass'.ref = pass.ref
        /\ pass'.obj = mem
    BY <1>1, <1>6 DEF Goto, Passes
  <2> QED BY <1>3, <2>1 DEF RefreshedTo
<1>7. ASSUME Goto([pass EXCEPT !.obj = bound, !.fresh = TRUE, !.pc = "read",
                               !.target = NoId])
      PROVE  RefreshedTo("read", pass.target)
  <2>1. /\ pass'.pc = "read" /\ pass'.fresh = TRUE /\ pass'.ref = pass.ref
        /\ pass'.obj = bound
    BY <1>1, <1>7 DEF Goto, Passes
  <2> QED BY <1>3, <1>4, <2>1 DEF RefreshedTo
<1>8. \/ Conclude(pass, "error", queued) /\ UNCHANGED <<versions, remote>>
      \/ Conclude(Outdated(pass), "error", queued) /\ UNCHANGED remote
      \/ /\ patched /\ pass.target = NoId /\ UNCHANGED remote
         /\ Goto([pass EXCEPT !.obj = mem, !.fresh = TRUE, !.pc = "create"])
      \/ /\ patched /\ pass.target # NoId
         /\ Goto([pass EXCEPT !.obj = bound, !.fresh = TRUE, !.pc = "read",
                               !.target = NoId])
         /\ remote' = [remote EXCEPT ![pass.target].mine = TRUE]
  BY Zenon DEF AddCreateAttemptAnnotation, mem, bound
<1> HIDE DEF patched
<1> QED BY <1>0, <1>5, <1>6, <1>7, <1>8, BackoffWith, LostAnswerWith

\* The patch that takes the annotation off, and what it leads to.
LEMMA RemoveCreateAttemptEffect ==
  ASSUME TypeOK, RemoveCreateAttemptAnnotation
  PROVE  LET id == Kept(store.status.id, pass.obj.status.id, NoId)
         IN /\ pass.pc \in {"dropRejected", "dropAttempt"} /\ UNCHANGED remote
            /\ \E cleared \in ClearedForms :
                 /\ UNCHANGED versions \/ Write(cleared)
                 /\ \/ /\ EndedWith(pass, pass.obj.status.id)
                       /\ UNCHANGED versions \/ pass'.fresh = FALSE
                    \/ /\ Patched(cleared) /\ pass.pc = "dropAttempt"
                       /\ RefreshedTo("read", id)
                    \/ /\ Patched(cleared) /\ pass.pc = "dropRejected"
                       /\ pass' = Idle \/ RefreshedTo("status", id)
<1>a. PICK cleared \in ClearedForms : PatchAttemptOff(cleared)
  BY DEF RemoveCreateAttemptAnnotation
<1> DEFINE mem == Refresh(cleared, pass.obj)
           p == [pass EXCEPT !.obj = mem, !.fresh = TRUE]
           id == Kept(store.status.id, pass.obj.status.id, NoId)
           patched == IF store # cleared THEN Write(cleared) ELSE UNCHANGED versions
<1>0. /\ pass.pc \in {"dropRejected", "dropAttempt"} /\ UNCHANGED remote
      /\ UNCHANGED versions \/ Write(cleared)
  BY <1>a DEF PatchAttemptOff
<1>1. /\ pass \in Passes /\ pass.obj \in Objects /\ store \in Objects
      /\ cleared \in Objects /\ pass.err \in ErrorValues \cup {NoError}
  BY PassFacts, StoreType, ClearedType
<1>2. /\ cleared.pin \in {store.pin, NoId} /\ cleared.status = store.status
      /\ pass.obj.pin # NoId => cleared.pin = store.pin
  BY ClearedType
<1>5. ASSUME patched PROVE Patched(cleared)
  BY <1>5 DEF Patched
<1>3. /\ mem.pin \in {store.pin, pass.obj.pin} /\ mem \in Objects
      /\ mem.status.id = id
  BY <1>1, <1>2, RefreshKeeps, RefreshType
<1> HIDE DEF mem, id
<1>4. p \in Passes /\ p.fresh = TRUE /\ p.ref = pass.ref /\ p.obj = mem
  BY <1>1, <1>3 DEF Passes
<1> HIDE DEF p
<1>6. ASSUME OnAdapterError(p, pass.err)
      PROVE  pass' = Idle \/ RefreshedTo("status", id)
  <2>1. EndedWith(p, p.obj.status.id)
    BY <1>1, <1>4, <1>6, ErrorWith
  <2> QED BY <1>3, <1>4, <2>1 DEF EndedWith, RefreshedTo
<1>7. ASSUME Goto([p EXCEPT !.pc = "read"]) PROVE RefreshedTo("read", id)
  <2>1. /\ pass'.pc = "read" /\ pass'.fresh = p.fresh /\ pass'.ref = p.ref
        /\ pass'.obj = p.obj
    BY <1>4, <1>7 DEF Goto, Passes
  <2> QED BY <1>3, <1>4, <2>1 DEF RefreshedTo
<1>8. \/ Conclude(pass, "error", queued) /\ UNCHANGED versions
      \/ Conclude(Outdated(pass), "error", queued)
      \/ patched /\ pass.pc = "dropRejected" /\ OnAdapterError(p, pass.err)
      \/ patched /\ pass.pc = "dropAttempt" /\ Goto([p EXCEPT !.pc = "read"])
  BY <1>a, Zenon DEF PatchAttemptOff, p, mem
<1> HIDE DEF patched
<1>9. /\ UNCHANGED versions \/ Write(cleared)
      /\ \/ /\ EndedWith(pass, pass.obj.status.id)
            /\ UNCHANGED versions \/ pass'.fresh = FALSE
         \/ /\ Patched(cleared) /\ pass.pc = "dropAttempt"
            /\ RefreshedTo("read", id)
         \/ /\ Patched(cleared) /\ pass.pc = "dropRejected"
            /\ pass' = Idle \/ RefreshedTo("status", id)
  BY <1>0, <1>5, <1>6, <1>7, <1>8, BackoffWith, LostAnswerWith
<1> QED BY <1>0, <1>9 DEF id

\* A request that may have been carried out is one that create retries.
LEMMA ActedIsRetryable ==
  ASSUME NEW code \in FaultCodes, MayHaveActed(code)
  PROVE  IsRetryable(Failure(code))
<1>1. code \in Nat /\ (code = 0 \/ code >= 500)
  BY SettingsAssumption DEF MayHaveActed
<1>2. Failure(code) \in {"Unreachable", "Internal"}
  BY <1>1 DEF Failure, NewFromHTTPResponse
<1> QED BY <1>2 DEF IsRetryable, Retryable, ReasonForError, NoError

\* What a POST makes, and what the pass learns of it.
LEMMA CreateEffect ==
  ASSUME TypeOK, Create
  PROVE  LET s == pass.obj.spec
         IN /\ pass.pc = "create" /\ UNCHANGED versions
            /\ \/ /\ UNCHANGED remote
                  /\ \/ EndedWith(pass, pass.obj.status.id)
                     \/ MovedTo("dropRejected") \/ MovedTo("conflictFind")
               \/ /\ s.ident # NoIdent
                  /\ \E id \in NextIds :
                       \/ /\ remote' = [remote EXCEPT ![id] = Posted(pass.ref, s, "live", TRUE)]
                          /\ \/ EndedWith(pass, id)
                             \/ EndedWith(pass, pass.obj.status.id)
                       \/ /\ LateCommits
                          /\ remote' = [remote EXCEPT ![id] = Posted(pass.ref, s, "pending", TRUE)]
<1> DEFINE s == pass.obj.spec
           new(id, state) == remote' = [remote EXCEPT ![id] = Posted(pass.ref, s, state, TRUE)]
           fail(e) == IF IsRetryable(e)
                      THEN OnAdapterError(pass, e)
                      ELSE Goto([pass EXCEPT !.pc = "dropRejected", !.err = e])
           recorded(id) == [pass.obj.status EXCEPT !.id = id, !.hash = pass.hash]
           st(id) == SetConditionsOnOutcome(recorded(id), pass.gen, "synced", "Created")
           created(id) == [pass EXCEPT !.obj.status = st(id)]
           ended == EndedWith(pass, pass.obj.status.id)
<1>0. pass.pc = "create" /\ UNCHANGED versions
  BY DEF Create
<1>1. /\ pass \in Passes /\ pass.obj \in Objects /\ pass.obj.status \in Statuses
      /\ pass.hash \in Hashes /\ pass.gen \in Nat
  BY PassFacts
<1>2. ASSUME NEW e \in ErrorValues \cup {NoError}, fail(e)
      PROVE  /\ ended \/ MovedTo("dropRejected")
             /\ IsRetryable(e) => ended
  <2>1. ASSUME Goto([pass EXCEPT !.pc = "dropRejected", !.err = e])
        PROVE  MovedTo("dropRejected")
    BY <1>1, <2>1 DEF Goto, MovedTo, Passes
  <2>2. ASSUME OnAdapterError(pass, e) PROVE ended
    BY <1>1, <2>2, ErrorWith
  <2> QED BY <1>2, <2>1, <2>2
<1>3. ASSUME NEW id \in Ids, Conclude(created(id), "later", queued)
      PROVE  EndedWith(pass, id)
  <2>1. recorded(id) \in Statuses /\ recorded(id).id = id
    BY <1>1 DEF Statuses
  <2> HIDE DEF recorded
  <2>2. st(id) \in Statuses
    BY <1>1, <2>1, ConditionsType DEF Outcomes, ConditionReasons
  <2>3. st(id).id = id
    BY <2>1 DEF SetConditionsOnOutcome, Statuses
  <2> HIDE DEF st
  <2> DEFINE ob == [pass.obj EXCEPT !.status = st(id)]
  <2>4. created(id) = [pass EXCEPT !.obj = ob]
    BY <1>1 DEF Passes
  <2>5. ob \in Objects /\ ob.status = st(id) /\ ob.pin = pass.obj.pin
    BY <1>1, <2>2 DEF Objects
  <2> HIDE DEF ob
  <2>6. /\ created(id) \in Passes /\ created(id).fresh = pass.fresh
        /\ created(id).ref = pass.ref /\ created(id).obj = ob
    BY <1>1, <2>4, <2>5 DEF Passes
  <2> HIDE DEF created
  <2> QED BY <1>1, <1>3, <2>3, <2>5, <2>6, ReportsWith
<1>4. /\ "Raw" \in ErrorValues /\ NewFromHTTPResponse(400) \in ErrorValues \cup {NoError}
      /\ \A code \in FaultCodes : Failure(code) \in ErrorValues \cup {NoError}
  BY FailureType, FaultCodesType DEF ErrorValues
<1>5. ASSUME Goto([pass EXCEPT !.pc = "conflictFind"]) PROVE MovedTo("conflictFind")
  BY <1>1, <1>5 DEF Goto, MovedTo, Passes
<1>6. \/ fail("Raw") /\ UNCHANGED remote
      \/ fail(NewFromHTTPResponse(400)) /\ UNCHANGED remote
      \/ Goto([pass EXCEPT !.pc = "conflictFind"]) /\ UNCHANGED remote
      \/ /\ s.ident # NoIdent
         /\ \E id \in NextIds : new(id, "live") /\ Conclude(created(id), "later", queued)
      \/ /\ s.ident # NoIdent
         /\ \E code \in FaultCodes :
              /\ fail(Failure(code))
              /\ \/ UNCHANGED remote
                 \/ /\ MayHaveActed(code)
                    /\ \E id \in NextIds : new(id, "live") \/ (LateCommits /\ new(id, "pending"))
  BY Zenon DEF Create
<1> HIDE DEF fail, created, ended, new
<1>7. CASE /\ s.ident # NoIdent
           /\ \E id \in NextIds : new(id, "live") /\ Conclude(created(id), "later", queued)
  <2>1. PICK id \in NextIds : new(id, "live") /\ Conclude(created(id), "later", queued)
    BY <1>7
  <2>2. EndedWith(pass, id)
    BY <1>3, <2>1 DEF NextIds
  <2> QED BY <1>0, <1>7, <2>1, <2>2 DEF new
<1>8. ASSUME NEW code \in FaultCodes, fail(Failure(code)), MayHaveActed(code),
             s.ident # NoIdent, NEW id \in NextIds,
             new(id, "live") \/ (LateCommits /\ new(id, "pending"))
      PROVE  /\ s.ident # NoIdent
             /\ \/ new(id, "live") /\ ended
                \/ LateCommits /\ new(id, "pending")
  BY <1>2, <1>4, <1>8, ActedIsRetryable
<1>9. CASE /\ s.ident # NoIdent
           /\ \E code \in FaultCodes :
              /\ fail(Failure(code))
              /\ \/ UNCHANGED remote
                 \/ /\ MayHaveActed(code)
                    /\ \E id \in NextIds : new(id, "live") \/ (LateCommits /\ new(id, "pending"))
  <2>1. PICK code \in FaultCodes :
              /\ fail(Failure(code))
              /\ \/ UNCHANGED remote
                 \/ /\ MayHaveActed(code)
                    /\ \E id \in NextIds : new(id, "live") \/ (LateCommits /\ new(id, "pending"))
    BY <1>9
  <2>2. CASE UNCHANGED remote
    BY <1>0, <1>2, <1>4, <2>1, <2>2 DEF ended
  <2>3. CASE /\ MayHaveActed(code)
             /\ \E id \in NextIds : new(id, "live") \/ (LateCommits /\ new(id, "pending"))
    <3>1. PICK id \in NextIds : new(id, "live") \/ (LateCommits /\ new(id, "pending"))
      BY <2>3
    <3>2. \/ new(id, "live") /\ ended
          \/ LateCommits /\ new(id, "pending")
      BY <1>8, <1>9, <2>1, <2>3, <3>1
    <3> QED BY <1>0, <1>9, <3>2 DEF new, ended
  <2> QED BY <2>1, <2>2, <2>3
<1>10. CASE UNCHANGED remote /\ (fail("Raw") \/ fail(NewFromHTTPResponse(400)))
  BY <1>0, <1>2, <1>4, <1>10 DEF ended
<1>11. CASE UNCHANGED remote /\ Goto([pass EXCEPT !.pc = "conflictFind"])
  BY <1>0, <1>5, <1>11
<1> QED BY <1>6, <1>7, <1>9, <1>10, <1>11

\* The object is the same but for the mark that others touched it.
SameButTouched ==
  \/ UNCHANGED remote
  \/ remote' = [remote EXCEPT ![pass.obj.status.id].touched = FALSE]

\* Recording a new hash leaves the rest of a pass.
LEMMA SameKeeps ==
  ASSUME TypeOK
  PROVE  LET same == [pass EXCEPT !.obj.status.hash = pass.hash]
         IN same.fresh = pass.fresh /\ same.ref = pass.ref /\ same.obj.pin = pass.obj.pin
<1> DEFINE same == [pass EXCEPT !.obj.status.hash = pass.hash]
           ss == [pass.obj.status EXCEPT !.hash = pass.hash]
           so == [pass.obj EXCEPT !.status = ss]
<1>0. pass \in Passes /\ pass.obj \in Objects
  BY PassFacts
<1>1. same = [pass EXCEPT !.obj = so]
  BY <1>0 DEF Passes, Objects
<1> HIDE DEF ss
<1>2. so.pin = pass.obj.pin
  BY <1>0 DEF Objects
<1> HIDE DEF so
<1>3. /\ [pass EXCEPT !.obj = so].obj = so /\ [pass EXCEPT !.obj = so].fresh = pass.fresh
      /\ [pass EXCEPT !.obj = so].ref = pass.ref
  BY <1>0 DEF Passes
<1> QED BY <1>1, <1>2, <1>3

\* What the GET of a recorded object leads to.
LEMMA OnExistingObjectEffect ==
  ASSUME TypeOK, OnExistingObject
  PROVE  /\ pass.pc = "read" /\ UNCHANGED versions /\ SameButTouched
         /\ \/ EndedWith(pass, pass.obj.status.id)
            \/ ~Live(pass.obj.status.id, pass.ref) /\ EndedWith(pass, NoId)
            \/ MovedTo("update") /\ pass.obj.spec.ident # NoIdent
<1> DEFINE o == pass.obj
           lost == [pass EXCEPT !.obj.status.id = NoId, !.obj.status.hash = NoHash]
           same == [pass EXCEPT !.obj.status.hash = pass.hash]
           ended == EndedWith(pass, pass.obj.status.id)
<1>0. pass.pc = "read" /\ UNCHANGED versions
  BY DEF OnExistingObject
<1>1. /\ pass \in Passes /\ o \in Objects /\ o.gen \in Nat
      /\ lost \in Passes /\ same \in Passes
  BY PassFacts, RecordedType
<1>2. SameButTouched
  BY Zenon DEF OnExistingObject, SameButTouched
<1>3. ASSUME NEW code \in FaultCodes, OnAdapterError(pass, Failure(code)) PROVE ended
  BY <1>3, FaultWith
<1>4. ASSUME NEW r \in {"CompareFailed", "ImmutableFieldChanged"},
             Conclude(Verdict(pass, o.gen, "terminal", r), "none", queued)
      PROVE  ended
  BY <1>1, <1>4, VerdictWith DEF Outcomes, ConditionReasons
<1>5. ASSUME Conclude(Verdict(lost, o.gen, "pending", "Pending"), "later", queued)
      PROVE  EndedWith(pass, NoId)
  <2>1. /\ lost.obj.status.id = NoId /\ lost.fresh = pass.fresh /\ lost.ref = pass.ref
        /\ lost.obj.pin = pass.obj.pin
    <3> DEFINE ls == [o.status EXCEPT !.id = NoId, !.hash = NoHash]
               lo == [o EXCEPT !.status = ls]
    <3>1. o.status \in Statuses
      BY PassFacts
    <3>2. ls.id = NoId
      BY <3>1 DEF Statuses
    <3>3. lost = [pass EXCEPT !.obj = lo]
      BY <1>1, <3>1 DEF Passes, Objects
    <3> HIDE DEF ls
    <3>4. lo.status = ls /\ lo.pin = o.pin
      BY <1>1 DEF Objects
    <3> HIDE DEF lo, lost
    <3>5. lost.obj = lo /\ lost.fresh = pass.fresh /\ lost.ref = pass.ref
      BY <1>1, <3>3 DEF Passes
    <3> QED BY <3>2, <3>4, <3>5
  <2> HIDE DEF lost
  <2>2. EndedWith(lost, lost.obj.status.id)
    BY <1>1, <1>5, VerdictWith DEF Outcomes, ConditionReasons
  <2> QED BY <2>1, <2>2 DEF EndedWith
<1>6. ASSUME Conclude(Verdict(same, o.gen, "synced", "Synced"), "later", queued)
      PROVE  ended
  <2>1. same.obj.status.id = o.status.id
    BY SameFields
  <2>2. same.fresh = pass.fresh /\ same.ref = pass.ref /\ same.obj.pin = pass.obj.pin
    BY SameKeeps
  <2> HIDE DEF same
  <2>3. EndedWith(same, same.obj.status.id)
    BY <1>1, <1>6, VerdictWith DEF Outcomes, ConditionReasons
  <2> QED BY <2>1, <2>2, <2>3 DEF EndedWith
<1>7. ASSUME Goto([pass EXCEPT !.pc = "update"]) PROVE MovedTo("update")
  BY <1>1, <1>7 DEF Goto, MovedTo, Passes
<1> HIDE DEF ended, lost, same
<1>8. \/ \E code \in FaultCodes : OnAdapterError(pass, Failure(code))
      \/ /\ ~Live(o.status.id, pass.ref)
         /\ Conclude(Verdict(lost, o.gen, "pending", "Pending"), "later", queued)
      \/ \E r \in {"CompareFailed", "ImmutableFieldChanged"} :
           Conclude(Verdict(pass, o.gen, "terminal", r), "none", queued)
      \/ o.spec.ident # NoIdent /\ Goto([pass EXCEPT !.pc = "update"])
      \/ Conclude(Verdict(same, o.gen, "synced", "Synced"), "later", queued)
  BY DEF OnExistingObject, lost, same
<1> QED BY <1>0, <1>2, <1>3, <1>4, <1>5, <1>6, <1>7, <1>8 DEF ended

\* What a PUT leaves behind.
LEMMA UpdateEffect ==
  ASSUME TypeOK, Update
  PROVE  LET id == pass.obj.status.id
         IN /\ pass.pc = "update" /\ UNCHANGED versions
            /\ EndedWith(pass, id)
            /\ \/ SameButTouched
               \/ /\ Live(id, pass.ref)
                  /\ remote' = [remote EXCEPT ![id] = Updated(id, pass.obj.spec)]
<1> DEFINE id == pass.obj.status.id
           o == pass.obj
           same == [pass EXCEPT !.obj.status.hash = pass.hash]
           ended == EndedWith(pass, id)
<1>0. pass.pc = "update" /\ UNCHANGED versions
  BY DEF Update
<1>1. /\ pass \in Passes /\ o \in Objects /\ o.gen \in Nat /\ same \in Passes
  BY PassFacts, RecordedType
<1>2. \/ SameButTouched
      \/ Live(id, pass.ref) /\ remote' = [remote EXCEPT ![id] = Updated(id, pass.obj.spec)]
  BY Zenon DEF Update, SameButTouched
<1>3. ASSUME NEW code \in FaultCodes, OnAdapterError(pass, Failure(code)) PROVE ended
  BY <1>3, FaultWith
<1>4. ASSUME NEW code \in {404, 400, 409}, OnAdapterError(pass, NewFromHTTPResponse(code))
      PROVE  ended
  BY <1>1, <1>4, FailureType, ErrorWith
<1>5. ASSUME Conclude(Verdict(same, o.gen, "synced", "Updated"), "later", queued)
      PROVE  ended
  <2>1. same.obj.status.id = o.status.id
    BY SameFields
  <2>2. same.fresh = pass.fresh /\ same.ref = pass.ref /\ same.obj.pin = pass.obj.pin
    BY SameKeeps
  <2> HIDE DEF same
  <2>3. EndedWith(same, same.obj.status.id)
    BY <1>1, <1>5, VerdictWith DEF Outcomes, ConditionReasons
  <2> QED BY <2>1, <2>2, <2>3 DEF EndedWith
<1> HIDE DEF ended, same
<1>6. \/ \E code \in FaultCodes : OnAdapterError(pass, Failure(code))
      \/ \E code \in {404, 400, 409} : OnAdapterError(pass, NewFromHTTPResponse(code))
      \/ Conclude(Verdict(same, o.gen, "synced", "Updated"), "later", queued)
  BY DEF Update, same
<1> QED BY <1>0, <1>2, <1>3, <1>4, <1>5, <1>6 DEF ended

\* Status().Update is the last thing a pass does.
LEMMA UpdateStatusEffect ==
  ASSUME TypeOK, UpdateStatus
  PROVE  /\ pass.pc = "status" /\ pass' = Idle /\ UNCHANGED remote
         /\ \/ UNCHANGED versions
            \/ pass.fresh /\ Write([store EXCEPT !.status = pass.obj.status])
BY Zenon DEF UpdateStatus, Stop

-----------------------------------------------------------------------------
(* The steps of finalize *)

\* The Find of finalize goes on only when it found one object or none.
LEMMA FinalizeFindEffect ==
  ASSUME TypeOK, FinalizeFind
  PROVE  /\ pass.pc = "finalizeFind" /\ UNCHANGED <<versions, remote>>
         /\ \/ pass' = Idle
            \/ MovedTo("removeFinalizer") /\ Find(pass.ref, pass.obj.spec) = {}
            \/ MovedTo("reclaim") /\ Find(pass.ref, pass.obj.spec) = {pass'.target}
<1> DEFINE found == Find(pass.ref, pass.obj.spec)
<1>0. pass.pc = "finalizeFind" /\ UNCHANGED <<versions, remote>> /\ pass \in Passes
  BY PassFacts DEF FinalizeFind
<1>1. ASSUME Goto([pass EXCEPT !.pc = "removeFinalizer"]) PROVE MovedTo("removeFinalizer")
  BY <1>0, <1>1 DEF Goto, MovedTo, Passes
<1>2. ASSUME NEW id, Goto([pass EXCEPT !.pc = "reclaim", !.target = id])
      PROVE  MovedTo("reclaim") /\ pass'.target = id
  BY <1>0, <1>2 DEF Goto, MovedTo, Passes
<1>3. \/ pass' = Idle
      \/ found = {} /\ Goto([pass EXCEPT !.pc = "removeFinalizer"])
      \/ \E id \in found : /\ found = {id}
                           /\ Goto([pass EXCEPT !.pc = "reclaim", !.target = id])
  BY Zenon DEF FinalizeFind, Stop
<1> HIDE DEF found
<1> QED BY <1>0, <1>1, <1>2, <1>3 DEF found

\* What the DELETE of finalize leaves behind.
LEMMA ReclaimEffect ==
  ASSUME TypeOK, Reclaim
  PROVE  LET gone == \/ /\ Live(pass.target, pass.ref)
                        /\ remote' = [remote EXCEPT ![pass.target].state = "gone"]
                     \/ ~Live(pass.target, pass.ref) /\ UNCHANGED remote
         IN /\ pass.pc = "reclaim" /\ UNCHANGED versions
            /\ \/ pass' = Idle /\ (UNCHANGED remote \/ gone)
               \/ MovedTo("removeFinalizer") /\ gone
<1>0. pass.pc = "reclaim" /\ UNCHANGED versions /\ pass \in Passes
  BY PassFacts DEF Reclaim
<1>1. ASSUME Goto([pass EXCEPT !.pc = "removeFinalizer"]) PROVE MovedTo("removeFinalizer")
  BY <1>0, <1>1 DEF Goto, MovedTo, Passes
<1> QED BY <1>0, <1>1 DEF Reclaim, Stop

\* The finalizer goes with an update of a fresh copy, or stays.
LEMMA RemoveFinalizerEffect ==
  ASSUME TypeOK, RemoveFinalizer
  PROVE  /\ pass.pc = "removeFinalizer" /\ pass' = Idle
         /\ \/ UNCHANGED <<versions, remote>>
            \/ pass.fresh /\ Write(Absent) /\ Release
BY Zenon DEF RemoveFinalizer, Stop

-----------------------------------------------------------------------------
(* How a pass starts *)

\* The pass starts on a request, over an object that gives it an identity.
StartedAt(pc, o, fresh) ==
  /\ pass'.pc = pc /\ pass'.obj = o /\ pass'.fresh = fresh
  /\ pass'.ref = o.spec.ref /\ o.spec.ident # NoIdent

\* Where a pass over a live CR starts, by what its status records.
LEMMA PlanEffect ==
  ASSUME NEW p \in Passes, NEW q, Plan(p, q)
  PROVE  LET o == p.obj
         IN \/ EndedWith(p, o.status.id)
            \/ o.status.id = NoId /\ StartedAt("find", o, p.fresh)
            \/ o.status.id # NoId /\ o.attempt /\ StartedAt("dropAttempt", o, p.fresh)
            \/ o.status.id # NoId /\ StartedAt("read", o, p.fresh)
<1> DEFINE o == p.obj
           started == [p EXCEPT !.hash = Hash(o.spec), !.gen = o.gen, !.ref = o.spec.ref]
           pc == CASE o.status.id = NoId -> "find"
                   [] o.status.id # NoId /\ o.attempt -> "dropAttempt"
                   [] OTHER -> "read"
<1>0. o \in Objects /\ o.gen \in Nat
  BY DEF Passes, Objects
<1>1. ASSUME NEW out \in {"suspended", "terminal", "recoverable"},
             NEW r \in {"Suspended", "InvalidSpec", "ProviderConfigNotReady"}, NEW again,
             Conclude(Verdict(p, o.gen, out, r), again, q)
      PROVE  EndedWith(p, o.status.id)
  BY <1>0, <1>1, VerdictWith DEF Outcomes, ConditionReasons
<1>2. ASSUME NEW c, pass' = [started EXCEPT !.pc = c], o.spec.ident # NoIdent
      PROVE  StartedAt(c, o, p.fresh)
  BY <1>2 DEF StartedAt, Passes
<1>4. \/ EndedWith(p, o.status.id)
      \/ o.spec.ident # NoIdent /\ pass' = [started EXCEPT !.pc = pc]
  <2> HIDE DEF started, pc
  <2> QED BY <1>1 DEF Plan, started, pc
<1> HIDE DEF started
<1>5. \/ EndedWith(p, o.status.id)
      \/ StartedAt(pc, o, p.fresh)
  BY <1>2, <1>4
<1>6. \/ pc = "find" /\ o.status.id = NoId
      \/ pc = "dropAttempt" /\ o.status.id # NoId /\ o.attempt
      \/ pc = "read" /\ o.status.id # NoId
  OBVIOUS
<1> HIDE DEF pc
<1> QED BY <1>5, <1>6

\* Where a finalizing pass starts.
LEMMA FinalizeEffect ==
  ASSUME NEW p \in Passes, NEW q, Finalize(p, q)
  PROVE  LET o == p.obj
             going(pc) == /\ pass'.pc = pc /\ pass'.obj = o /\ pass'.fresh = p.fresh
                          /\ pass'.ref \in {p.ref, o.spec.ref}
         IN \/ pass' = Idle
            \/ /\ o.finalizer /\ going("removeFinalizer")
               /\ \/ o.spec.reclaimPolicy = "Orphan" \/ Unbound(o)
                  \/ o.spec.ident = NoIdent
            \/ /\ o.finalizer /\ going("reclaim")
               /\ o.status.id # NoId /\ pass'.target = o.status.id
            \/ o.finalizer /\ going("finalizeFind")
<1> DEFINE o == p.obj
           going(pc) == /\ pass'.pc = pc /\ pass'.obj = o /\ pass'.fresh = p.fresh
                        /\ pass'.ref \in {p.ref, o.spec.ref}
           pc == CASE o.status.id # NoId -> "reclaim"
                   [] o.status.id = NoId /\ o.spec.ident = NoIdent -> "removeFinalizer"
                   [] OTHER -> "finalizeFind"
<1>1. ASSUME pass' = [p EXCEPT !.pc = "removeFinalizer"] PROVE going("removeFinalizer")
  BY <1>1 DEF Passes
<1>2. ASSUME NEW c, pass' = [p EXCEPT !.ref = o.spec.ref, !.target = o.status.id, !.pc = c]
      PROVE  going(c) /\ pass'.target = o.status.id
  BY <1>2 DEF Passes
<1>3. \/ pass' = Idle
      \/ /\ o.finalizer /\ (o.spec.reclaimPolicy = "Orphan" \/ Unbound(o))
         /\ pass' = [p EXCEPT !.pc = "removeFinalizer"]
      \/ /\ o.finalizer
         /\ pass' = [p EXCEPT !.ref = o.spec.ref, !.target = o.status.id, !.pc = pc]
  BY Zenon DEF Finalize
<1>4. \/ pc = "reclaim" /\ o.status.id # NoId
      \/ pc = "removeFinalizer" /\ o.spec.ident = NoIdent
      \/ pc = "finalizeFind"
  OBVIOUS
<1> HIDE DEF pc, going
<1> QED BY <1>1, <1>2, <1>3, <1>4 DEF going

\* A worker's copy comes from the cache.
LEMMA FetchedKeeps ==
  /\ Fetched.obj = cache /\ Fetched.ref = AnySpec.ref
  /\ Fetched.fresh = (Len(versions) = 1)
<1>1. /\ "obj" \in DOMAIN Idle /\ "before" \in DOMAIN Idle /\ "fresh" \in DOMAIN Idle
      /\ "ref" \in DOMAIN Idle /\ Idle.ref = AnySpec.ref
  BY DEF Idle
<1> QED BY <1>1 DEF Fetched, Idle

\* What reconcile and finalize start with, over object o.
Refs3(o) == {AnySpec.ref, pass.ref, o.spec.ref}

Planned(o, fresh) ==
  \/ pass' = Idle
  \/ /\ pass'.fresh => fresh
     /\ pass'.ref \in Refs3(o)
     /\ pass'.obj.pin = o.pin /\ pass'.obj.status.id = o.status.id
     /\ \/ pass'.pc = "status"
        \/ /\ pass'.pc = "find" /\ o.status.id = NoId
           /\ pass'.obj.spec.ident # NoIdent
        \/ pass'.pc \in {"dropAttempt", "read"} /\ o.status.id # NoId

Finalizing(o, fresh) ==
  \/ pass' = Idle
  \/ /\ pass'.obj = o /\ pass'.fresh = fresh /\ pass'.ref \in Refs3(o)
     /\ \/ /\ pass'.pc = "removeFinalizer"
           /\ \/ o.spec.reclaimPolicy = "Orphan" \/ Unbound(o)
              \/ o.spec.ident = NoIdent
        \/ /\ pass'.pc = "reclaim"
           /\ o.status.id # NoId /\ pass'.target = o.status.id
        \/ pass'.pc = "finalizeFind"

\* The same, in the form the fetch uses.
LEMMA PlansOver ==
  ASSUME NEW p \in Passes, NEW q, Plan(p, q), p.ref \in {AnySpec.ref, pass.ref}
  PROVE  Planned(p.obj, p.fresh)
<1> DEFINE o == p.obj
<1>1. \/ EndedWith(p, o.status.id)
      \/ o.status.id = NoId /\ StartedAt("find", o, p.fresh)
      \/ o.status.id # NoId /\ o.attempt /\ StartedAt("dropAttempt", o, p.fresh)
      \/ o.status.id # NoId /\ StartedAt("read", o, p.fresh)
  BY PlanEffect
<1>2. CASE EndedWith(p, o.status.id)
  BY <1>2 DEF EndedWith, Planned, Refs3
<1>3. CASE ~EndedWith(p, o.status.id)
  BY <1>1, <1>3 DEF StartedAt, Planned, Refs3
<1> QED BY <1>2, <1>3

\* What a fetch leads to.
LEMMA ReconcileEffect ==
  ASSUME TypeOK, Reconcile
  PROVE  /\ pass.pc = "idle" /\ UNCHANGED <<versions, remote>>
         /\ \/ pass' = Idle
            \/ /\ cache.exists /\ ~cache.finalizer
               /\ pass'.pc = "addFinalizer" /\ pass'.obj = cache
               /\ pass'.fresh = (Len(versions) = 1) /\ pass'.ref = AnySpec.ref
            \/ Held(cache) /\ Finalizing(cache, Len(versions) = 1)
            \/ BoundLive(cache) /\ Planned(cache, Len(versions) = 1)
<1>0. /\ pass.pc = "idle" /\ UNCHANGED <<versions, remote>> /\ Fetched \in Passes
      /\ Fetched.obj = cache /\ Fetched.ref = AnySpec.ref
      /\ Fetched.fresh = (Len(versions) = 1)
  BY FetchedType, FetchedKeeps DEF Reconcile
<1>1. ASSUME cache.exists, Finalize(Fetched, FALSE)
      PROVE  pass' = Idle \/ (Held(cache) /\ Finalizing(cache, Len(versions) = 1))
  BY <1>0, <1>1, FinalizeEffect DEF Finalizing, Refs3, Held
<1>2. ASSUME pass' = [Fetched EXCEPT !.pc = "addFinalizer"]
      PROVE  /\ pass'.pc = "addFinalizer" /\ pass'.obj = cache
             /\ pass'.fresh = (Len(versions) = 1) /\ pass'.ref = AnySpec.ref
  <2>1. /\ pass'.pc = "addFinalizer" /\ pass'.obj = Fetched.obj
        /\ pass'.fresh = Fetched.fresh /\ pass'.ref = Fetched.ref
    BY <1>0, <1>2 DEF Passes
  <2> QED BY <1>0, <2>1
<1>3. ASSUME Plan(Fetched, FALSE) PROVE Planned(cache, Len(versions) = 1)
  <2>1. Planned(Fetched.obj, Fetched.fresh)
    BY <1>0, <1>3, PlansOver
  <2> QED BY <1>0, <2>1
<1> QED BY <1>0, <1>1, <1>2, <1>3 DEF Reconcile, Held, BoundLive

\* The finalizer goes on with an update of a fresh copy, and the pass starts.
LEMMA AddFinalizerEffect ==
  ASSUME TypeOK, AddFinalizer
  PROVE  LET added == [store EXCEPT !.finalizer = TRUE]
         IN /\ pass.pc = "addFinalizer" /\ UNCHANGED remote
            /\ \/ pass' = Idle /\ UNCHANGED versions
               \/ /\ pass.fresh /\ Write(added)
                  /\ Planned(added, TRUE)
<1> DEFINE added == [store EXCEPT !.finalizer = TRUE]
           p == [pass EXCEPT !.obj = added]
<1>0. /\ pass.pc = "addFinalizer" /\ UNCHANGED remote /\ pass \in Passes
      /\ pass.fresh \in BOOLEAN /\ added \in Objects
  BY PassFacts, StoreType DEF AddFinalizer, Objects, Passes
<1>1. \/ pass' = Idle /\ UNCHANGED versions
      \/ pass' = Idle /\ pass.fresh /\ Write(added)
      \/ pass.fresh /\ Write(added) /\ Plan(p, queued)
  BY Zenon DEF AddFinalizer, Stop
<1> HIDE DEF added
<1>2. p \in Passes /\ p.obj = added /\ p.fresh = pass.fresh /\ p.ref = pass.ref
  BY <1>0 DEF Passes
<1> HIDE DEF p
<1>3. ASSUME pass.fresh, Plan(p, queued) PROVE Planned(added, TRUE)
  <2>1. Planned(p.obj, p.fresh)
    BY <1>2, <1>3, PlansOver
  <2>2. p.fresh = TRUE
    BY <1>0, <1>2, <1>3
  <2> QED BY <1>2, <2>1, <2>2
<1>4. pass' = Idle => Planned(added, TRUE)
  BY DEF Planned
<1> QED BY <1>0, <1>1, <1>3, <1>4 DEF added

-----------------------------------------------------------------------------
(* The user and the other writers *)

\* What the user's writes leave of a CR that is never pinned.
LEMMA UserEffect ==
  ASSUME TypeOK, User, Pins = {}
  PROVE  \E o : /\ Touched(o)
                /\ \/ /\ ~Held(store) /\ ~Held(o)
                      /\ o.pin = NoId /\ o.status.id = NoId /\ ~o.attempt
                   \/ /\ o.pin = store.pin /\ o.attempt = store.attempt
                      /\ Held(o) <=> Held(store)
                      /\ BoundLive(o) => BoundLive(store)
                      /\ o.status.id = store.status.id \/ LoseStatus
<1> DEFINE fits(o) ==
             \/ /\ ~Held(store) /\ ~Held(o)
                /\ o.pin = NoId /\ o.status.id = NoId /\ ~o.attempt
             \/ /\ o.pin = store.pin /\ o.attempt = store.attempt
                /\ Held(o) <=> Held(store)
                /\ BoundLive(o) => BoundLive(store)
                /\ o.status.id = store.status.id \/ LoseStatus
<1>0. store \in Objects /\ Absent \in Objects /\ spent \in [Spends -> Nat]
      /\ NoStatus \in Statuses
  BY StoreType, Starts, PassFacts
<1>1. ASSUME NEW s \in Specs, Apply(s) PROVE \E o : Touched(o) /\ fits(o)
  <2> DEFINE o == [Absent EXCEPT !.exists = TRUE, !.gen = 1, !.spec = s]
  <2>1. /\ o \in Objects /\ o.finalizer = FALSE /\ o.attempt = FALSE
        /\ o.pin = NoId /\ o.status = NoStatus
    BY <1>0 DEF Absent, Objects
  <2>2. Touched(o)
    BY <1>0, <1>1, <2>1, SpendType DEF Apply, Touched, Spends
  <2>3. fits(o)
    BY <1>1, <2>1 DEF Apply, Held, NoStatus
  <2> QED BY <2>2, <2>3
<1>2. ASSUME NEW s \in Specs, Edit(s) PROVE \E o : Touched(o) /\ fits(o)
  <2> DEFINE g == store.gen + 1
             o == [store EXCEPT !.spec = s, !.gen = g]
  <2>0. g \in Nat
    BY <1>0 DEF Objects
  <2> HIDE DEF g
  <2>1. /\ o \in Objects /\ o.finalizer = store.finalizer /\ o.exists = store.exists
        /\ o.deleting = store.deleting /\ o.attempt = store.attempt
        /\ o.pin = store.pin /\ o.status = store.status
    BY <1>0, <2>0 DEF Objects
  <2>2. Touched(o)
    BY <1>0, <1>2, <2>1, SpendType DEF Edit, Touched, Spends, g
  <2>3. fits(o)
    BY <2>1 DEF Held, BoundLive
  <2> QED BY <2>2, <2>3
<1>3. ASSUME Delete PROVE \E o : Touched(o) /\ fits(o)
  <2> DEFINE g == store.gen + 1
             o == [store EXCEPT !.deleting = TRUE, !.gen = g]
  <2>0. g \in Nat
    BY <1>0 DEF Objects
  <2> HIDE DEF g
  <2>1. /\ o \in Objects /\ o.finalizer = store.finalizer /\ o.exists = store.exists
        /\ o.deleting /\ o.attempt = store.attempt
        /\ o.pin = store.pin /\ o.status = store.status
    BY <1>0, <2>0 DEF Objects
  <2>2. CASE store.finalizer
    <3>1. Write(o) /\ Overtaken /\ UNCHANGED <<queued, timer, remote, spent>>
      BY <1>3, <2>2 DEF Delete, g
    <3>2. Touched(o)
      BY <1>0, <2>1, <3>1 DEF Touched
    <3>3. fits(o)
      BY <2>1 DEF Held, BoundLive
    <3> QED BY <3>2, <3>3
  <2>3. CASE ~store.finalizer
    <3>1. Write(Absent) /\ Overtaken /\ UNCHANGED <<queued, timer, remote, spent>>
      BY <1>3, <2>3 DEF Delete
    <3>2. Touched(Absent)
      BY <1>0, <3>1 DEF Touched
    <3>3. fits(Absent)
      BY <2>3, IdleFields DEF Held
    <3> QED BY <3>2, <3>3
  <2> QED BY <2>2, <2>3
<1>4. ASSUME LoseStatus PROVE \E o : Touched(o) /\ fits(o)
  <2> DEFINE o == [store EXCEPT !.status = NoStatus]
  <2>1. /\ o \in Objects /\ o.finalizer = store.finalizer /\ o.exists = store.exists
        /\ o.deleting = store.deleting /\ o.attempt = store.attempt
        /\ o.pin = store.pin
    BY <1>0 DEF Objects
  <2>2. Touched(o)
    BY <1>0, <1>4, <2>1, SpendType DEF LoseStatus, Touched, Spends
  <2>3. fits(o)
    BY <1>4, <2>1 DEF Held, BoundLive
  <2> QED BY <2>2, <2>3
<1> QED BY <1>1, <1>2, <1>3, <1>4 DEF User

\* The object is the same in all that a lookup or the ledger sees.
SameObject(j) ==
  /\ remote'[j].state = remote[j].state /\ remote'[j].mine = remote[j].mine
  /\ remote'[j].ref = remote[j].ref /\ remote'[j].ident = remote[j].ident

\* Someone else's object, of the one backend and identity.
OtherMade(j) ==
  /\ remote[j].state = "unborn"
  /\ remote'[j].state = "live" /\ remote'[j].mine = FALSE
  /\ \E s \in Specs : /\ s.ident # NoIdent /\ MeddleCreate(s)
                      /\ remote'[j].ref = s.ref /\ remote'[j].ident = s.ident

OtherDeleted(j) ==
  /\ MeddleDelete(j) /\ remote'[j].state = "gone"
  /\ remote'[j].ref = remote[j].ref /\ remote'[j].ident = remote[j].ident

\* What other writers do to an object.
LEMMA OthersEffect ==
  ASSUME TypeOK, OneName, Others
  PROVE  /\ UNCHANGED <<versions, pass>>
         /\ \A j \in Ids : SameObject(j) \/ OtherMade(j) \/ OtherDeleted(j)
<1> DEFINE done == \A j \in Ids : SameObject(j) \/ OtherMade(j) \/ OtherDeleted(j)
<1>0. remote \in [Ids -> RemoteObjects] /\ UNCHANGED <<versions, pass>>
  BY PassFacts, OthersType
<1>1. ASSUME NEW s \in Specs, MeddleCreate(s) PROVE done
  <2> DEFINE r == Posted(s.ref, s, "live", FALSE)
  <2>1. PICK id \in NextIds : remote' = [remote EXCEPT ![id] = r]
    BY <1>1 DEF MeddleCreate
  <2>2. id \in Ids /\ remote[id].state = "unborn" /\ s.ident # NoIdent
    BY <1>1 DEF NextIds, MeddleCreate
  <2>3. r.state = "live" /\ r.mine = FALSE /\ r.ref = s.ref /\ r.ident = s.ident
    BY DEF Posted
  <2> HIDE DEF r
  <2>4. OtherMade(id)
    BY <1>0, <1>1, <2>1, <2>2, <2>3 DEF OtherMade
  <2>5. \A j \in Ids \ {id} : SameObject(j)
    BY <1>0, <2>1 DEF SameObject
  <2> QED BY <2>4, <2>5
<1>2. ASSUME NEW id \in Ids, NEW b \in Bodies, MeddleEdit(id, b) PROVE done
  <2> DEFINE r == [remote[id] EXCEPT !.body = b, !.touched = TRUE]
  <2>1. remote' = [remote EXCEPT ![id] = r]
    BY <1>0, <1>2 DEF MeddleEdit
  <2>2. /\ r.state = remote[id].state /\ r.mine = remote[id].mine
        /\ r.ref = remote[id].ref /\ r.ident = remote[id].ident
    BY <1>0 DEF RemoteObjects
  <2> HIDE DEF r
  <2> QED BY <1>0, <2>1, <2>2 DEF SameObject
<1>3. ASSUME NEW id \in Ids, MeddleDelete(id) PROVE done
  <2> DEFINE r == [remote[id] EXCEPT !.state = "gone", !.touched = TRUE]
  <2>1. remote' = [remote EXCEPT ![id] = r]
    BY <1>0, <1>3 DEF MeddleDelete
  <2>2. r.state = "gone" /\ r.ref = remote[id].ref /\ r.ident = remote[id].ident
    BY <1>0 DEF RemoteObjects
  <2> HIDE DEF r
  <2>3. OtherDeleted(id)
    BY <1>0, <1>3, <2>1, <2>2 DEF OtherDeleted
  <2>4. \A j \in Ids \ {id} : SameObject(j)
    BY <1>0, <2>1 DEF SameObject
  <2> QED BY <2>3, <2>4
<1>4. ASSUME NEW id \in Ids, Commit(id) PROVE FALSE
  BY <1>4 DEF Commit, OneName
<1> QED BY <1>0, <1>1, <1>2, <1>3, <1>4 DEF Others

-----------------------------------------------------------------------------
(* One identity: every lookup finds whatever was made *)

\* What one identity means for any two specs.
LEMMA OneSpecName ==
  ASSUME OneMirror, NEW s \in Specs
  PROVE  /\ s.ref = AnySpec.ref
         /\ s.ident # NoIdent => \A t \in Specs : t.ident \in {NoIdent, s.ident}
BY SpecFields DEF OneMirror

\* A lookup by the identity misses no live object.
LEMMA FindsAll ==
  ASSUME TypeOK, OneBackend, OneName, NEW s \in Specs, s.ident # NoIdent
  PROVE  /\ {id \in Ids : remote[id].state = "live"} = Find(pass.ref, s)
         /\ Bound \subseteq Find(pass.ref, s)
BY DEF OneBackend, OneName, Find, Live, Bound

\* A write, or none, of an object without a pin.
LEMMA UnpinnedWrite ==
  ASSUME TypeOK, Unpinned, NEW o \in Objects, o.pin = NoId,
         UNCHANGED versions \/ Write(o), pass'.obj.pin = NoId
  PROVE  Unpinned'
<1>1. CASE UNCHANGED versions
  BY <1>1 DEF Unpinned
<1>2. CASE Write(o)
  <2>1. /\ Len(versions') = Len(versions) + 1 /\ versions'[Len(versions')] = o
        /\ \A i \in 1..Len(versions) : versions'[i] = versions[i]
        /\ Len(versions) \in Nat
    BY <1>2, WriteEffect, StoreType DEF store
  <2>2. ASSUME NEW i \in 1..Len(versions') PROVE versions'[i].pin = NoId
    <3>1. i = Len(versions') \/ i \in 1..Len(versions)
      BY <2>1
    <3> QED BY <2>1, <3>1 DEF Unpinned
  <2> QED BY <2>2 DEF Unpinned
<1> QED BY <1>1, <1>2

\* The API server's object and the cached one have no pin.
LEMMA StoreUnpinned ==
  ASSUME TypeOK, Unpinned
  PROVE  store.pin = NoId /\ cache.pin = NoId
BY StoreType DEF Unpinned, store

\* What the pass holds, at whatever step: no pin, the one backend, and an
\* identity where it looks one up or writes one.
Shaped == pass.obj.pin = NoId /\ pass.ref = AnySpec.ref /\ NamedPass

\* A pass that ends is in shape.
LEMMA EndsShaped ==
  ASSUME NEW p, NEW id, EndedWith(p, id), p.obj.pin = NoId, p.ref = AnySpec.ref
  PROVE  Shaped'
<1>1. CASE pass' = Idle
  BY <1>1, IdleFields DEF Shaped, NamedPass
<1>2. CASE pass' # Idle
  BY <1>2 DEF EndedWith, Shaped, NamedPass
<1> QED BY <1>1, <1>2

\* A pass that goes on stays in shape.
LEMMA GoesShaped ==
  ASSUME TypeOK, Unpinned, OneBackend, NEW pc, NEW id,
         MovedTo(pc) \/ RefreshedTo(pc, id),
         pc \notin {"find", "update"}
  PROVE  Shaped'
BY StoreUnpinned DEF MovedTo, RefreshedTo, Shaped, NamedPass, Unpinned, OneBackend

\* A pass that starts is in shape.
LEMMA StartsShaped ==
  ASSUME OneMirror, OneBackend, NEW o \in Objects, o.pin = NoId, NEW fresh,
         Planned(o, fresh) \/ Finalizing(o, fresh)
  PROVE  Shaped'
<1>1. o.spec \in Specs /\ o.spec.ref = AnySpec.ref
  BY OneSpecName DEF Objects
<1>2. CASE pass' = Idle
  BY <1>2, IdleFields DEF Shaped, NamedPass
<1>3. CASE pass' # Idle
  BY <1>1, <1>3 DEF Planned, Finalizing, Refs3, Shaped, NamedPass, OneBackend
<1> QED BY <1>2, <1>3

\* Every step of the reconciler keeps the pass and the versions in shape.
LEMMA PassShaped ==
  ASSUME TypeOK, OneMirror, Unpinned, OneBackend, NamedPass, Pass
  PROVE  Shaped' /\ Unpinned'
<1>0. /\ pass.obj.pin = NoId /\ pass.ref = AnySpec.ref /\ store.pin = NoId
      /\ cache.pin = NoId /\ store \in Objects /\ cache \in Objects
      /\ Absent \in Objects /\ Absent.pin = NoId
  BY StoreUnpinned, StoreType, IdleFields, Starts DEF Unpinned, OneBackend
<1>1. ASSUME NEW o \in Objects, o.pin = NoId, UNCHANGED versions \/ Write(o), Shaped'
      PROVE  Shaped' /\ Unpinned'
  BY <1>1, UnpinnedWrite DEF Shaped
<1>2. ASSUME pass' = Idle PROVE Shaped'
  BY <1>2, IdleFields DEF Shaped, NamedPass
<1>3. CASE OnNewObject \/ OnConflict
  <2>1. UNCHANGED versions /\ Shaped'
    BY <1>0, <1>3, OnNewObjectEffect, OnConflictEffect, EndsShaped, GoesShaped
  <2> QED BY <1>0, <1>1, <2>1
<1>4. CASE AddCreateAttemptAnnotation
  <2>1. Marked(store) \in Objects /\ Marked(store).pin = NoId
    BY <1>0, WrittenType DEF Marked, Objects
  <2>0. /\ UNCHANGED versions \/ Write(Marked(store))
        /\ \/ EndedWith(pass, pass.obj.status.id)
           \/ RefreshedTo("create", Kept(store.status.id, pass.obj.status.id, NoId))
           \/ RefreshedTo("read", pass.target)
    BY <1>4, AddCreateAttemptEffect
  <2>2. Shaped' /\ (UNCHANGED versions \/ Write(Marked(store)))
    BY <1>0, <1>4, <2>0, EndsShaped, GoesShaped DEF AddCreateAttemptAnnotation
  <2> QED BY <1>1, <2>1, <2>2
<1>5. CASE RemoveCreateAttemptAnnotation
  <2> DEFINE id == Kept(store.status.id, pass.obj.status.id, NoId)
  <2>0. PICK cleared \in ClearedForms :
          /\ UNCHANGED versions \/ Write(cleared)
          /\ \/ pass' = Idle \/ EndedWith(pass, pass.obj.status.id)
             \/ RefreshedTo("read", id) \/ RefreshedTo("status", id)
          /\ pass.pc \in {"dropRejected", "dropAttempt"}
    BY <1>5, RemoveCreateAttemptEffect
  <2>1. cleared \in Objects /\ cleared.pin = NoId
    BY <1>0, ClearedType
  <2> HIDE DEF id
  <2>2. Shaped' /\ (UNCHANGED versions \/ Write(cleared))
    BY <1>0, <1>2, <2>0, EndsShaped, GoesShaped
  <2> QED BY <1>1, <2>1, <2>2
<1>6. CASE Create
  <2>1. UNCHANGED versions
    BY <1>6, CreateEffect
  <2>2. ~LateCommits
    BY DEF OneMirror
  <2>3. \/ MovedTo("dropRejected") \/ MovedTo("conflictFind")
        \/ \E id : EndedWith(pass, id)
    BY <1>6, <2>2, CreateEffect
  <2>4. Shaped'
    BY <1>0, <2>3, EndsShaped, GoesShaped
  <2> QED BY <1>0, <1>1, <2>1, <2>4
<1>7. CASE OnExistingObject
  <2>1. UNCHANGED versions
    BY <1>7, OnExistingObjectEffect
  <2>2. ASSUME MovedTo("update"), pass.obj.spec.ident # NoIdent PROVE Shaped'
    BY <1>0, <2>2 DEF MovedTo, Shaped, NamedPass
  <2>3. Shaped'
    BY <1>0, <1>7, <2>2, OnExistingObjectEffect, EndsShaped
  <2> QED BY <1>0, <1>1, <2>1, <2>3
<1>8. CASE Update
  <2>1. UNCHANGED versions /\ EndedWith(pass, pass.obj.status.id)
    BY <1>8, UpdateEffect
  <2> QED BY <1>0, <1>1, <2>1, EndsShaped
<1>9. CASE UpdateStatus
  <2> DEFINE reported == [store EXCEPT !.status = pass.obj.status]
  <2>1. reported \in Objects /\ reported.pin = NoId
    BY <1>0, WrittenType DEF Objects
  <2>2. pass' = Idle /\ (UNCHANGED versions \/ Write(reported))
    BY <1>9, UpdateStatusEffect
  <2> HIDE DEF reported
  <2> QED BY <1>1, <1>2, <2>1, <2>2
<1>10. CASE FinalizeFind \/ Reclaim
  <2>1. UNCHANGED versions /\ Shaped'
    BY <1>2, <1>10, FinalizeFindEffect, ReclaimEffect, GoesShaped
  <2> QED BY <1>0, <1>1, <2>1
<1>11. CASE RemoveFinalizer
  <2>1. pass' = Idle /\ (UNCHANGED versions \/ Write(Absent))
    BY <1>11, RemoveFinalizerEffect
  <2> QED BY <1>0, <1>1, <1>2, <2>1
<1>12. CASE Reconcile
  <2>1. ASSUME pass'.pc = "addFinalizer", pass'.obj = cache, pass'.ref = AnySpec.ref
        PROVE  Shaped'
    BY <1>0, <2>1 DEF Shaped, NamedPass
  <2>2. UNCHANGED versions /\ Shaped'
    BY <1>0, <1>2, <1>12, <2>1, ReconcileEffect, StartsShaped
  <2> QED BY <1>0, <1>1, <2>2
<1>13. CASE AddFinalizer
  <2> DEFINE added == [store EXCEPT !.finalizer = TRUE]
  <2>1. added \in Objects /\ added.pin = NoId
    BY <1>0 DEF Objects
  <2>2. \/ pass' = Idle /\ UNCHANGED versions
        \/ Write(added) /\ Planned(added, TRUE)
    BY <1>13, AddFinalizerEffect
  <2> HIDE DEF added
  <2>3. Shaped' /\ (UNCHANGED versions \/ Write(added))
    BY <1>2, <2>1, <2>2, StartsShaped
  <2> QED BY <1>1, <2>1, <2>3
<1> QED BY <1>3, <1>4, <1>5, <1>6, <1>7, <1>8, <1>9, <1>10, <1>11, <1>12, <1>13 DEF Pass

\* Every other step: the user's, the other writers', the watch's, the clock's.
LEMMA RestShaped ==
  ASSUME TypeOK, OneMirror, Unpinned, OneBackend, OneName, NamedPass,
         Deliver \/ Tick \/ User \/ Others \/ Nudge \/ Crash \/ UNCHANGED vars
  PROVE  Shaped' /\ Unpinned'
<1>0. /\ Shaped /\ store.pin = NoId /\ Absent \in Objects /\ Absent.pin = NoId
      /\ Len(versions) \in Nat \ {0}
  BY StoreUnpinned, StoreType, Starts, IdleFields DEF Shaped, Unpinned, OneBackend
<1>1. CASE UNCHANGED <<versions, pass>>
  BY <1>0, <1>1 DEF Shaped, NamedPass, Unpinned
<1>2. CASE User
  <2>1. PICK o : Touched(o) /\ o.pin = NoId
    <3>1. Pins = {}
      BY DEF OneMirror
    <3>2. PICK o : Touched(o) /\ (o.pin = NoId \/ o.pin = store.pin)
      BY <1>2, <3>1, UserEffect
    <3> QED BY <1>0, <3>2
  <2>2. pass' = [pass EXCEPT !.fresh = FALSE] /\ Write(o) /\ o \in Objects
    BY <2>1 DEF Touched, Overtaken, Outdated
  <2>3. pass'.obj = pass.obj /\ pass'.ref = pass.ref /\ pass'.pc = pass.pc
    BY <2>2, PassFacts DEF Passes
  <2>4. Shaped'
    BY <1>0, <2>3 DEF Shaped, NamedPass
  <2> QED BY <2>1, <2>2, <2>4, UnpinnedWrite DEF Shaped
<1>3. CASE Deliver
  <2>1. /\ UNCHANGED pass /\ Len(versions') = Len(versions) - 1
        /\ \A i \in 1..Len(versions') : versions'[i] = versions[i + 1]
    BY <1>3, DeliverEffect DEF Deliver
  <2>2. ASSUME NEW i \in 1..Len(versions') PROVE versions'[i].pin = NoId
    <3>1. i + 1 \in 1..Len(versions)
      BY <1>0, <2>1
    <3> QED BY <2>1, <3>1 DEF Unpinned
  <2> QED BY <1>0, <2>1, <2>2 DEF Shaped, NamedPass, Unpinned
<1>4. CASE Crash
  <2>1. pass' = Idle /\ versions' = <<store>>
    BY <1>4 DEF Crash
  <2> QED BY <1>0, <2>1, IdleFields DEF Shaped, NamedPass, Unpinned
<1> QED BY <1>1, <1>2, <1>3, <1>4, OthersEffect DEF Tick, Nudge, vars

-----------------------------------------------------------------------------
(* At most one object *)

\* What the objects in SigNoz are, whatever the pass does.
Kindred ==
  /\ \A id \in Ids : remote[id].ref = AnySpec.ref
  /\ OneName
  /\ AtMostOneObject

\* The invariant, by what its parts depend on.
LEMMA SingleForm == SingleInductive <=> Unpinned /\ Shaped /\ Kindred /\ LookedUp
BY DEF SingleInductive, Shaped, Kindred, OneBackend, Unpinned

\* A step that leaves every object as it is, up to its body and its marks.
LEMMA SameKindred ==
  ASSUME Kindred, \A j \in Ids : SameObject(j)
  PROVE  Kindred' /\ Bound' = Bound
BY DEF Kindred, SameObject, OneName, AtMostOneObject, Bound

\* What is left alone is the same object.
LEMMA UnchangedObjects ==
  ASSUME UNCHANGED remote
  PROVE  \A j \in Ids : SameObject(j)
BY DEF SameObject

\* Looking at an object leaves it the same.
LEMMA TouchedObjects ==
  ASSUME TypeOK, SameButTouched
  PROVE  \A j \in Ids : SameObject(j)
<1> DEFINE id == pass.obj.status.id
           r == [remote[id] EXCEPT !.touched = FALSE]
<1>0. remote \in [Ids -> RemoteObjects]
  BY PassFacts
<1>1. CASE UNCHANGED remote
  BY <1>1, UnchangedObjects
<1>2. CASE remote' = [remote EXCEPT ![id].touched = FALSE]
  <2>1. remote' = [remote EXCEPT ![id] = r]
    BY <1>0, <1>2
  <2>2. id \in Ids => /\ r.state = remote[id].state /\ r.mine = remote[id].mine
                      /\ r.ref = remote[id].ref /\ r.ident = remote[id].ident
    BY <1>0 DEF RemoteObjects
  <2> HIDE DEF r
  <2> QED BY <1>0, <2>1, <2>2 DEF SameObject
<1> QED BY <1>1, <1>2 DEF SameButTouched

\* An object, looked at one by one: it is the same, or changed to one that fits.
LEMMA OneChanged ==
  ASSUME Kindred, NEW id \in Ids, \A j \in Ids \ {id} : SameObject(j),
         remote'[id].ref = AnySpec.ref,
         remote'[id].state # "unborn" =>
           /\ remote'[id].state # "pending"
           /\ \A s \in Specs : s.ident \in {NoIdent, remote'[id].ident},
         \/ Bound \subseteq {id}
         \/ ~(remote'[id].state = "live" /\ remote'[id].mine)
         \/ id \in Bound
  PROVE  /\ Kindred'
         /\ Bound' \subseteq Bound \cup {id}
         /\ Bound \subseteq Bound' \cup {id}
<1>1. (\A j \in Ids : remote[j].ref = AnySpec.ref)' /\ OneName'
  BY DEF Kindred, SameObject, OneName
<1>2. \A j \in Ids \ {id} : j \in Bound' <=> j \in Bound
  BY DEF SameObject, Bound
<1>3. id \in Bound' => id \in Bound \/ Bound \subseteq {id}
  BY DEF Bound
<1>4. \A i, j \in Bound : i = j
  BY DEF Kindred, AtMostOneObject, Bound
<1>5. Bound \subseteq Ids /\ Bound' \subseteq Ids
  BY DEF Bound
<1>6. \A i, j \in Bound' : i = j
  BY <1>2, <1>3, <1>4, <1>5
<1>7. AtMostOneObject'
  BY <1>6 DEF AtMostOneObject, Bound
<1> QED BY <1>1, <1>2, <1>5, <1>7 DEF Kindred

\* The PUT keeps the one identity.
LEMMA UpdateKindred ==
  ASSUME TypeOK, OneMirror, SingleInductive, Update
  PROVE  /\ Kindred' /\ Bound' = Bound
         /\ \A j \in Ids : /\ remote'[j].state = remote[j].state
                           /\ remote'[j].mine = remote[j].mine
<1> DEFINE id == pass.obj.status.id
           r == Updated(id, pass.obj.spec)
<1>0. /\ remote \in [Ids -> RemoteObjects] /\ pass.obj.spec \in Specs /\ Kindred
      /\ pass.obj.spec.ident # NoIdent
  BY PassFacts, SingleForm, UpdateEffect DEF Shaped, NamedPass
<1>1. CASE SameButTouched
  BY <1>0, <1>1, TouchedObjects, SameKindred DEF SameObject
<1>2. CASE Live(id, pass.ref) /\ remote' = [remote EXCEPT ![id] = r]
  <2>1. id \in Ids
    BY <1>2 DEF Live
  <2>2. remote[id] \in RemoteObjects
    BY <1>0, <2>1
  <2>3. /\ r.state = remote[id].state /\ r.mine = remote[id].mine
        /\ r.ref = remote[id].ref /\ r.ident \in {remote[id].ident, pass.obj.spec.ident}
    BY <2>2 DEF Updated, RemoteObjects
  <2> HIDE DEF r
  <2>4. remote'[id] = r /\ \A j \in Ids \ {id} : SameObject(j)
    BY <1>0, <1>2, <2>1 DEF SameObject
  <2>5. \A s \in Specs : s.ident \in {NoIdent, r.ident}
    BY <1>0, <1>2, <2>1, <2>3, OneSpecName DEF Kindred, OneName, Live
  <2>6. remote'[id].ref = AnySpec.ref /\ remote'[id].state = "live"
    BY <1>0, <1>2, <2>1, <2>3, <2>4 DEF Kindred, Live
  <2>7. (remote'[id].state = "live" /\ remote'[id].mine) => id \in Bound
    BY <2>1, <2>3, <2>4 DEF Bound
  <2>8. Kindred'
    BY <1>0, <2>1, <2>4, <2>5, <2>6, <2>7, OneChanged
  <2>9. \A j \in Ids : remote'[j].state = remote[j].state /\ remote'[j].mine = remote[j].mine
    BY <2>3, <2>4 DEF SameObject
  <2> QED BY <2>8, <2>9 DEF Bound
<1> QED BY <1>1, <1>2, UpdateEffect

\* The POST comes when the CR has no live object.
LEMMA CreateKindred ==
  ASSUME TypeOK, OneMirror, SingleInductive, Create
  PROVE  /\ Kindred' /\ Bound = {}
         /\ \/ Bound' = {} /\ \A j \in Ids : SameObject(j)
            \/ \E id \in Ids :
                 /\ Bound' = {id} /\ \A j \in Ids \ {id} : SameObject(j)
                 /\ remote'[id].state = "live" /\ remote'[id].mine
                 /\ EndedWith(pass, id) \/ EndedWith(pass, pass.obj.status.id)
         /\ pass'.pc \in {"dropRejected", "conflictFind"} => Bound' = {}
<1> DEFINE s == pass.obj.spec
           r == Posted(pass.ref, s, "live", TRUE)
<1>0. /\ remote \in [Ids -> RemoteObjects] /\ s \in Specs /\ Kindred
      /\ pass.ref = AnySpec.ref /\ ~LateCommits /\ Bound = {}
  BY PassFacts, SingleForm, CreateEffect DEF Shaped, LookedUp, OneMirror
<1>1. CASE UNCHANGED remote
  BY <1>0, <1>1, UnchangedObjects, SameKindred
<1>2. ASSUME s.ident # NoIdent, NEW id \in NextIds,
             remote' = [remote EXCEPT ![id] = r],
             EndedWith(pass, id) \/ EndedWith(pass, pass.obj.status.id)
      PROVE  /\ Kindred' /\ id \in Ids
             /\ Bound' = {id} /\ \A j \in Ids \ {id} : SameObject(j)
             /\ remote'[id].state = "live" /\ remote'[id].mine
             /\ pass'.pc \notin {"dropRejected", "conflictFind"}
  <2>1. id \in Ids
    BY DEF NextIds
  <2>2. r.state = "live" /\ r.mine /\ r.ref = pass.ref /\ r.ident = s.ident
    BY DEF Posted
  <2> HIDE DEF r
  <2>3. remote'[id] = r /\ \A j \in Ids \ {id} : SameObject(j)
    BY <1>0, <1>2, <2>1 DEF SameObject
  <2>4. \A t \in Specs : t.ident \in {NoIdent, r.ident}
    BY <1>0, <1>2, <2>2, OneSpecName
  <2>5. Kindred' /\ Bound' \subseteq Bound \cup {id}
    BY <1>0, <2>1, <2>2, <2>3, <2>4, OneChanged
  <2>6. id \in Bound'
    BY <2>1, <2>2, <2>3 DEF Bound
  <2>7. pass'.pc \in {"idle", "status"}
    BY <1>2, IdleFields DEF EndedWith
  <2> QED BY <1>0, <2>1, <2>2, <2>3, <2>5, <2>6, <2>7
<1>3. \/ UNCHANGED remote
      \/ /\ s.ident # NoIdent
         /\ \E id \in NextIds : /\ remote' = [remote EXCEPT ![id] = r]
                                /\ EndedWith(pass, id) \/ EndedWith(pass, pass.obj.status.id)
  BY <1>0, CreateEffect
<1>4. CASE /\ s.ident # NoIdent
           /\ \E id \in NextIds : /\ remote' = [remote EXCEPT ![id] = r]
                                  /\ EndedWith(pass, id) \/ EndedWith(pass, pass.obj.status.id)
  <2> HIDE DEF r
  <2>1. PICK id \in NextIds : /\ remote' = [remote EXCEPT ![id] = r]
                              /\ EndedWith(pass, id) \/ EndedWith(pass, pass.obj.status.id)
    BY <1>4
  <2>2. /\ Kindred' /\ id \in Ids
        /\ Bound' = {id} /\ \A j \in Ids \ {id} : SameObject(j)
        /\ remote'[id].state = "live" /\ remote'[id].mine
        /\ pass'.pc \notin {"dropRejected", "conflictFind"}
    BY <1>2, <1>4, <2>1
  <2> QED BY <1>0, <2>1, <2>2
<1> QED BY <1>1, <1>3, <1>4

\* The adopt binds the one object the lookup found.
LEMMA AdoptKindred ==
  ASSUME TypeOK, SingleInductive, pass.pc = "mark", pass.target # NoId,
         remote' = [remote EXCEPT ![pass.target].mine = TRUE]
  PROVE  /\ Kindred' /\ Bound' \subseteq {pass.target} /\ Bound \subseteq Bound'
         /\ remote[pass.target].state = "live" => pass.target \in Bound'
         /\ \A j \in Ids : /\ remote'[j].state = remote[j].state
                           /\ remote[j].mine => SameObject(j)
<1> DEFINE id == pass.target
           r == [remote[id] EXCEPT !.mine = TRUE]
<1>0. /\ remote \in [Ids -> RemoteObjects] /\ id \in Ids /\ Kindred
      /\ Bound \subseteq {id}
  BY PassFacts, SingleForm DEF LookedUp
<1>1. remote[id] \in RemoteObjects /\ remote' = [remote EXCEPT ![id] = r]
  BY <1>0
<1>2. /\ r.state = remote[id].state /\ r.mine = TRUE
      /\ r.ref = remote[id].ref /\ r.ident = remote[id].ident
      /\ remote[id].mine \in BOOLEAN
  BY <1>1 DEF RemoteObjects
<1> HIDE DEF r
<1>3. remote'[id] = r /\ \A j \in Ids \ {id} : SameObject(j)
  BY <1>0, <1>1 DEF SameObject
<1>4. Kindred' /\ Bound' \subseteq Bound \cup {id}
  BY <1>0, <1>2, <1>3, OneChanged DEF Kindred, OneName
<1>5. \A j \in Ids : /\ remote'[j].state = remote[j].state
                     /\ remote[j].mine => SameObject(j)
  BY <1>2, <1>3 DEF SameObject
<1>6. id \in Bound \/ remote[id].state = "live" => id \in Bound'
  BY <1>0, <1>2, <1>3 DEF Bound
<1> QED BY <1>0, <1>4, <1>5, <1>6

\* The DELETE takes one object away.
LEMMA ReclaimKindred ==
  ASSUME TypeOK, SingleInductive, Reclaim
  PROVE  /\ Kindred' /\ Bound' \subseteq Bound
         /\ pass'.pc = "removeFinalizer" => pass.target \notin Bound'
         /\ Bound \ Bound' \subseteq {pass.target}
         /\ \A j \in Ids : remote'[j].state = "live" => SameObject(j)
<1> DEFINE id == pass.target
           r == [remote[id] EXCEPT !.state = "gone"]
           gone == \/ /\ Live(pass.target, pass.ref)
                      /\ remote' = [remote EXCEPT ![pass.target].state = "gone"]
                   \/ ~Live(pass.target, pass.ref) /\ UNCHANGED remote
<1>0. /\ remote \in [Ids -> RemoteObjects] /\ Kindred /\ pass.ref = AnySpec.ref
  BY PassFacts, SingleForm DEF Shaped
<1>1. CASE UNCHANGED remote
  <2>1. Kindred' /\ Bound' = Bound /\ \A j \in Ids : SameObject(j)
    BY <1>0, <1>1, UnchangedObjects, SameKindred
  <2>2. pass'.pc = "removeFinalizer" => ~Live(id, pass.ref)
    <3>1. Idle.pc # "removeFinalizer"
      BY IdleFields
    <3>2. pass' = Idle \/ gone
      BY ReclaimEffect
    <3>3. ASSUME Live(id, pass.ref), remote' = [remote EXCEPT ![id].state = "gone"] PROVE FALSE
      <4>1. id \in Ids /\ remote[id] \in RemoteObjects /\ remote[id].state = "live"
        BY <1>0, <3>3 DEF Live
      <4>2. remote'[id] = r
        BY <1>0, <3>3, <4>1
      <4>3. r.state = "gone"
        BY <4>1 DEF RemoteObjects
      <4> QED BY <1>1, <4>1, <4>2, <4>3
    <3> QED BY <3>1, <3>2, <3>3
  <2>3. ~Live(id, pass.ref) => id \notin Bound
    BY <1>0 DEF Live, Bound, Kindred
  <2> QED BY <2>1, <2>2, <2>3
<1>2. CASE Live(id, pass.ref) /\ remote' = [remote EXCEPT ![id].state = "gone"]
  <2>1. id \in Ids /\ remote[id] \in RemoteObjects /\ remote' = [remote EXCEPT ![id] = r]
    BY <1>0, <1>2 DEF Live
  <2>2. r.state = "gone" /\ r.ref = remote[id].ref /\ r.ident = remote[id].ident
    BY <2>1 DEF RemoteObjects
  <2> HIDE DEF r
  <2>3. remote'[id] = r /\ \A j \in Ids \ {id} : SameObject(j)
    BY <1>0, <2>1 DEF SameObject
  <2>4. remote[id].state = "live"
    BY <1>2 DEF Live
  <2>5. /\ Kindred' /\ Bound' \subseteq Bound \cup {id}
        /\ Bound \subseteq Bound' \cup {id}
    BY <1>0, <2>1, <2>2, <2>3, <2>4, OneChanged DEF Kindred, OneName
  <2>6. id \notin Bound'
    BY <2>2, <2>3 DEF Bound
  <2>7. \A j \in Ids : remote'[j].state = "live" => SameObject(j)
    BY <2>2, <2>3
  <2> QED BY <2>5, <2>6, <2>7
<1> QED BY <1>1, <1>2, ReclaimEffect

\* The CR goes, and with it every claim.
LEMMA ReleaseKindred ==
  ASSUME TypeOK, Kindred, Release
  PROVE  /\ Kindred' /\ Bound' = {}
         /\ \A j \in Ids : remote'[j].state = remote[j].state
<1>0. remote \in [Ids -> RemoteObjects]
  BY PassFacts
<1>1. ASSUME NEW j \in Ids
      PROVE  /\ remote'[j].state = remote[j].state /\ remote'[j].mine = FALSE
             /\ remote'[j].ref = remote[j].ref /\ remote'[j].ident = remote[j].ident
  <2>1. remote[j] \in RemoteObjects /\ remote'[j] = [remote[j] EXCEPT !.mine = FALSE]
    BY <1>0 DEF Release
  <2> QED BY <2>1 DEF RemoteObjects
<1> QED BY <1>1 DEF Kindred, OneName, AtMostOneObject, Bound

\* The others neither bind an object nor change an identity.
LEMMA OthersKindred ==
  ASSUME TypeOK, OneMirror, SingleInductive, Others
  PROVE  /\ Kindred' /\ Bound' \subseteq Bound
         /\ Undeleted => /\ Bound' = Bound
                         /\ \A j \in Ids : remote[j].state = "live" => remote'[j].state = "live"
         /\ Alone => \A j \in Ids : SameObject(j)
<1>0. /\ Kindred /\ \A j \in Ids : SameObject(j) \/ OtherMade(j) \/ OtherDeleted(j)
  BY SingleForm, OthersEffect DEF Kindred
<1>1. Bound' \subseteq Bound
  BY <1>0 DEF SameObject, OtherMade, OtherDeleted, Bound
<1>2. (\A id \in Ids : remote[id].ref = AnySpec.ref)'
  BY <1>0, OneSpecName DEF SameObject, OtherMade, OtherDeleted, Kindred
<1>3. OneName'
  <2> SUFFICES ASSUME NEW id \in Ids, remote'[id].state # "unborn"
               PROVE  /\ remote'[id].state # "pending"
                      /\ \A s \in Specs : s.ident \in {NoIdent, remote'[id].ident}
    BY DEF OneName
  <2>1. CASE SameObject(id)
    BY <1>0, <2>1 DEF SameObject, Kindred, OneName
  <2>2. CASE OtherMade(id)
    BY <2>2, OneSpecName DEF OtherMade
  <2>3. CASE OtherDeleted(id)
    BY <1>0, <2>3 DEF OtherDeleted, MeddleDelete, Kindred, OneName
  <2> QED BY <1>0, <2>1, <2>2, <2>3
<1>4. AtMostOneObject'
  <2>1. \A i, j \in Bound : i = j
    BY <1>0 DEF Kindred, AtMostOneObject, Bound
  <2>2. \A i, j \in Bound' : i = j
    BY <1>1, <2>1
  <2> QED BY <2>2 DEF AtMostOneObject, Bound
<1>5. ASSUME Undeleted, NEW j \in Ids
      PROVE  /\ j \in Bound => j \in Bound'
             /\ remote[j].state = "live" => remote'[j].state = "live"
  <2>1. SameObject(j) \/ OtherMade(j)
    BY <1>0, <1>5 DEF Undeleted, OtherDeleted
  <2> QED BY <2>1 DEF SameObject, OtherMade, Bound
<1>6. ASSUME Alone, NEW j \in Ids PROVE SameObject(j)
  BY <1>0, <1>6 DEF Alone, Undeleted, OtherMade, OtherDeleted
<1>7. Bound \subseteq Ids
  BY DEF Bound
<1> QED BY <1>1, <1>2, <1>3, <1>4, <1>5, <1>6, <1>7 DEF Kindred

\* Where the pass ends up, for the parts that depend on its position.
LEMMA EndedAt ==
  ASSUME NEW p, NEW id, EndedWith(p, id)
  PROVE  pass'.pc \in {"idle", "status"}
BY IdleFields DEF EndedWith

\* A pass's step keeps what its lookup said.
LEMMA PassSingle ==
  ASSUME TypeOK, OneMirror, SingleInductive, Pass
  PROVE  SingleInductive'
<1> DEFINE same == \A j \in Ids : SameObject(j)
           parts == Kindred' /\ LookedUp'
           Late == {"mark", "create", "conflictFind", "dropRejected"}
<1>0. /\ Unpinned /\ Shaped /\ Kindred /\ LookedUp /\ OneBackend /\ NamedPass /\ OneName
      /\ pass.obj.spec \in Specs /\ Bound \subseteq Ids /\ NoId \notin Ids
  BY SingleForm, PassFacts, IdsAssumption
     DEF Kindred, SingleInductive, Bound
<1>1. Shaped' /\ Unpinned'
  BY <1>0, PassShaped
<1>2. ASSUME Kindred', pass'.pc \notin Late PROVE parts
  BY <1>2 DEF LookedUp
<1>3. ASSUME UNCHANGED remote PROVE Kindred' /\ Bound' = Bound
  BY <1>0, <1>3, UnchangedObjects, SameKindred
<1>4. ASSUME OnNewObject PROVE parts
  <2>1. UNCHANGED remote /\ pass.pc = "find"
    BY <1>4, OnNewObjectEffect
  <2>2. CASE EndedWith(pass, pass.obj.status.id)
    BY <1>2, <1>3, <2>1, <2>2, EndedAt
  <2>3. CASE /\ MovedTo("mark")
             /\ Find(pass.ref, pass.obj.spec) \subseteq {pass'.target}
    <3>1. Bound \subseteq Find(pass.ref, pass.obj.spec)
      BY <1>0, <2>1, FindsAll DEF NamedPass
    <3>2. pass'.pc = "mark" /\ Bound' \subseteq {pass'.target}
      BY <1>3, <2>1, <2>3, <3>1 DEF MovedTo
    <3> QED BY <1>3, <2>1, <3>2 DEF LookedUp
  <2> QED BY <1>0, <1>4, <2>2, <2>3, OnNewObjectEffect DEF Shaped
<1>5. ASSUME OnConflict PROVE parts
  <2>1. UNCHANGED remote /\ Bound = {}
    BY <1>0, <1>5, OnConflictEffect DEF LookedUp
  <2>2. pass'.pc \in {"idle", "status", "mark"}
    BY <1>5, OnConflictEffect, EndedAt DEF MovedTo
  <2> QED BY <1>3, <2>1, <2>2 DEF LookedUp
<1>6. ASSUME AddCreateAttemptAnnotation PROVE parts
  <2>1. pass.pc = "mark" /\ Bound \subseteq {pass.target}
    BY <1>0, <1>6, AddCreateAttemptEffect DEF LookedUp
  <2>2. CASE EndedWith(pass, pass.obj.status.id) /\ UNCHANGED remote
    BY <1>2, <1>3, <2>2, EndedAt
  <2>3. CASE /\ pass.target = NoId /\ UNCHANGED remote
             /\ RefreshedTo("create", Kept(store.status.id, pass.obj.status.id, NoId))
    <3>1. pass'.pc = "create" /\ Bound' = {}
      BY <1>0, <1>3, <2>1, <2>3 DEF RefreshedTo
    <3> QED BY <1>3, <2>3, <3>1 DEF LookedUp
  <2>4. CASE /\ pass.target # NoId
             /\ RefreshedTo("read", pass.target)
             /\ remote' = [remote EXCEPT ![pass.target].mine = TRUE]
    <3>1. pass'.pc = "read"
      BY <2>4 DEF RefreshedTo
    <3> QED BY <1>2, <2>1, <2>4, <3>1, AdoptKindred
  <2> QED BY <1>6, <2>2, <2>3, <2>4, AddCreateAttemptEffect
<1>7. ASSUME Create PROVE parts
  <2>1. Kindred' /\ (pass'.pc \in {"dropRejected", "conflictFind"} => Bound' = {})
    BY <1>7, CreateKindred
  <2>2. pass'.pc \in {"idle", "status", "dropRejected", "conflictFind"}
    BY <1>7, CreateType
  <2> QED BY <2>1, <2>2 DEF LookedUp
<1>8. ASSUME OnExistingObject PROVE parts
  <2>1. Kindred'
    BY <1>0, <1>8, OnExistingObjectEffect, TouchedObjects, SameKindred
  <2>2. pass'.pc \in {"idle", "status", "update"}
    BY <1>8, OnExistingObjectType
  <2> QED BY <1>2, <2>1, <2>2
<1>9. ASSUME Update PROVE parts
  <2>1. pass'.pc \in {"idle", "status"}
    BY <1>9, UpdateType
  <2> QED BY <1>2, <1>9, <2>1, UpdateKindred
<1>10. ASSUME RemoveCreateAttemptAnnotation PROVE parts
  <2>1. UNCHANGED remote /\ pass'.pc \in {"idle", "status", "read"}
    BY <1>10, RemoveCreateAttemptEffect, RemoveCreateAttemptType
  <2> QED BY <1>2, <1>3, <2>1
<1>11. ASSUME UpdateStatus \/ FinalizeFind PROVE parts
  <2>1. UNCHANGED remote /\ pass'.pc \in {"idle", "removeFinalizer", "reclaim"}
    BY <1>11, UpdateStatusEffect, FinalizeFindEffect, UpdateStatusType, FinalizeFindType
  <2> QED BY <1>2, <1>3, <2>1
<1>12. ASSUME Reclaim PROVE parts
  <2>1. pass'.pc \in {"idle", "removeFinalizer"}
    BY <1>12, ReclaimType
  <2> QED BY <1>2, <1>12, <2>1, ReclaimKindred
<1>13. ASSUME RemoveFinalizer PROVE parts
  <2>1. pass'.pc = "idle" /\ (UNCHANGED remote \/ Release)
    BY <1>13, RemoveFinalizerEffect, IdleFields
  <2> QED BY <1>0, <1>2, <1>3, <2>1, ReleaseKindred
<1>14. ASSUME Reconcile \/ AddFinalizer PROVE parts
  <2>1. UNCHANGED remote
    BY <1>14, ReconcileEffect, AddFinalizerEffect
  <2>2. pass'.pc \notin Late
    <3>1. pass' = Idle => pass'.pc = "idle"
      BY IdleFields
    <3>2. ASSUME NEW o, NEW fresh, Planned(o, fresh) \/ Finalizing(o, fresh)
          PROVE  pass'.pc \notin Late
      BY <3>1, <3>2 DEF Planned, Finalizing
    <3> QED BY <1>14, <3>1, <3>2, ReconcileEffect, AddFinalizerEffect
  <2> QED BY <1>2, <1>3, <2>1, <2>2
<1>15. parts
  BY <1>4, <1>5, <1>6, <1>7, <1>8, <1>9, <1>10, <1>11, <1>12, <1>13, <1>14 DEF Pass
<1> QED BY <1>1, <1>15, SingleForm, PTL

\* Every other step.
LEMMA RestSingle ==
  ASSUME TypeOK, OneMirror, SingleInductive,
         Deliver \/ Tick \/ User \/ Others \/ Nudge \/ Crash \/ UNCHANGED vars
  PROVE  SingleInductive'
<1>0. /\ Unpinned /\ Shaped /\ Kindred /\ LookedUp /\ OneBackend /\ NamedPass /\ OneName
  BY SingleForm DEF Kindred, SingleInductive
<1>1. Shaped' /\ Unpinned'
  BY <1>0, RestShaped
<1>2. Kindred' /\ Bound' \subseteq Bound
  <2>1. CASE Others
    BY <2>1, OthersKindred
  <2>2. CASE UNCHANGED remote
    BY <1>0, <2>2, UnchangedObjects, SameKindred
  <2>3. User => UNCHANGED remote
    BY UserWrites DEF Touched
  <2> QED BY <2>1, <2>2, <2>3 DEF Deliver, Tick, Nudge, Crash, vars
<1>3. \/ pass'.pc = pass.pc /\ pass'.target = pass.target
      \/ pass'.pc = "idle"
  <2>1. ASSUME User PROVE pass'.pc = pass.pc /\ pass'.target = pass.target
    <3>1. Overtaken
      BY <2>1, UserWrites DEF Touched
    <3> QED BY <3>1, PassFacts DEF Overtaken, Outdated, Passes
  <2>2. Crash => pass'.pc = "idle"
    BY IdleFields DEF Crash
  <2> QED BY <1>0, <2>1, <2>2, OthersEffect DEF Deliver, Tick, Nudge, vars
<1>4. LookedUp'
  BY <1>0, <1>2, <1>3 DEF LookedUp
<1> QED BY <1>1, <1>2, <1>4, SingleForm, PTL

\* A CR that keeps to one identity: each lookup finds what earlier creates left.
THEOREM SingleInductiveHolds ==
  ASSUME OneMirror
  PROVE  Spec => []SingleInductive
<1>1. Init => SingleInductive
  <2> SUFFICES ASSUME Init PROVE SingleInductive
    OBVIOUS
  <2>1. pass = Idle /\ versions = <<Absent>> /\ remote = [id \in Ids |-> Unborn]
    BY DEF Init
  <2>2. Unborn.state = "unborn" /\ Unborn.ref = AnySpec.ref
    BY DEF Unborn
  <2>3. Unpinned /\ Shaped
    BY <2>1, IdleFields DEF Unpinned, Shaped, NamedPass
  <2>4. Kindred
    BY <2>1, <2>2 DEF Kindred, OneName, AtMostOneObject
  <2>5. LookedUp
    BY <2>1, IdleFields DEF LookedUp
  <2> QED BY <2>3, <2>4, <2>5, SingleForm
<1>2. TypeOK /\ SingleInductive /\ [Next]_vars => SingleInductive'
  BY PassSingle, RestSingle DEF Next
<1> QED BY <1>1, <1>2, TypeCorrect, PTL DEF Spec

\* Retried creates, lost answers, stale caches, crashes, other writers and lost
\* statuses never leave such a CR with two live objects.
THEOREM AtMostOneObjectHolds ==
  ASSUME OneMirror
  PROVE  Spec => []AtMostOneObject
<1>1. SingleInductive => AtMostOneObject
  BY DEF SingleInductive
<1> QED BY <1>1, SingleInductiveHolds, PTL

=============================================================================
