---------------------------- MODULE RemoteProofs ----------------------------
(***************************************************************************)
(* What a branch and its owner can rely on, whatever the requests, the     *)
(* keys, the managers and the size of a poll: a request is carried out at  *)
(* most once, the owner is told what was committed, what is left behind    *)
(* stays so, and RemoteRequests implements OwnerRequests.                  *)
(***************************************************************************)
EXTENDS RemoteRequests, WellFoundedInduction, TLAPS

\* A price was changed for the rows that say applied, and for no other.
AppliedRows ==
    /\ \A r \in Requests : audit[r] = IF pending[r] = "applied" THEN 1 ELSE 0
    /\ form = "text" => \A r \in Requests : pending[r] # "applied"

\* The unique index of the control plane.
OnePerKey ==
    \A r, q \in Requests : r # q /\ KeyOf[r] = KeyOf[q] /\ cloud[r] # "absent" => cloud[q] = "absent"

\* What a manager's call is about to tell is committed.
AcksTrue ==
    \A m \in Managers : manager[m] # NoAck => pending[manager[m].request] = manager[m].status

\* The inductive invariant.
RemoteInv == TypeOK /\ AppliedRows /\ OnePerKey /\ AcksTrue /\ CloudAgrees

-----------------------------------------------------------------------------
(* The request a batch goes on with is one of the batch                    *)

LEMMA LeastNumber ==
  ASSUME NEW S \in SUBSET Nat, S # {}
  PROVE  \E x \in S : \A y \in S : x <= y
<1> DEFINE Less == {ss \in Nat \X Nat : ss[1] < ss[2]}
<1>1. IsWellFoundedOn(Less, Nat)
  BY NatLessThanWellFounded DEF OpToRel
<1>2. PICK x \in S : \A y \in S : <<y, x>> \notin Less
  BY <1>1, WFMin
<1>3. ASSUME NEW y \in S PROVE x <= y
  <2>1. <<y, x>> \notin Less
    BY <1>2
  <2>2. y < x => <<y, x>> \in Less
    OBVIOUS
  <2> QED  BY <2>1, <2>2
<1> QED  BY <1>3

LEMMA ForemostOfBatch ==
  ASSUME TypeOK, poll.batch # {}
  PROVE  Foremost \in poll.batch /\ Foremost \in Requests
<1>1. poll.batch \subseteq Requests /\ id \in [Requests -> Nat]
  BY DEF TypeOK
<1> DEFINE S == {id[r] : r \in poll.batch}
<1>2. S \in SUBSET Nat /\ S # {}
  BY <1>1
<1>3. PICK x \in S : \A y \in S : x <= y
  BY <1>2, LeastNumber
<1>4. PICK r \in poll.batch : id[r] = x
  OBVIOUS
<1>5. \A q \in poll.batch : id[r] <= id[q]
  BY <1>3, <1>4
<1> QED
  BY <1>1, <1>5 DEF Foremost

-----------------------------------------------------------------------------
(* Every step keeps the invariant                                          *)

LEMMA RemoteStarts == Init => RemoteInv
  BY RequestAssumption DEF Init, RemoteInv, TypeOK, AppliedRows, OnePerKey, AcksTrue, CloudAgrees,
     CloudStatus, LocalStatus, AlertStatus, Final, Asleep, NoAck

\* Who asks for a row that is resolved already is turned down, so that rows with an
\* outcome keep it.
LEMMA ResolvedOnce ==
  ASSUME RemoteInv, NEW m \in Managers, NEW r \in Requests, NEW status \in Final,
         MayResolve(m, r), Resolved(m, r, status),
         status = "applied" => form = "object",
         audit' = IF status = "applied" THEN [audit EXCEPT ![r] = @ + 1] ELSE audit,
         price' \in [Skus -> Prices]
  PROVE  RemoteInv'
<1> USE DEF RemoteInv, MayResolve, Resolved
<1>1. pending \in [Requests -> LocalStatus] /\ audit \in [Requests -> Nat] /\ manager \in [Managers -> Acks \cup {NoAck}]
  BY DEF TypeOK
<1>2. audit[r] = 0 /\ pending[r] = "pending_confirmation" /\ status # "absent"
  BY DEF AppliedRows, Final
<1>3. TypeOK'
  BY <1>1 DEF TypeOK, LocalStatus, Acks
<1>4. AppliedRows'
  BY <1>1, <1>2 DEF AppliedRows
<1>5. OnePerKey'
  BY DEF OnePerKey
<1>6. AcksTrue'
  <2>1. ASSUME NEW n \in Managers, manager[n] # NoAck PROVE manager[n].request # r
    BY <1>1, <1>2, <2>1 DEF AcksTrue, Acks, Final
  <2> QED
    BY <1>1, <2>1 DEF AcksTrue, Acks
<1>7. CloudAgrees'
  BY <1>1, <1>2 DEF CloudAgrees, Final
<1> QED
  BY <1>3, <1>4, <1>5, <1>6, <1>7

LEMMA RemoteSteps == RemoteInv /\ [Next]_remote => RemoteInv'
<1> SUFFICES ASSUME RemoteInv, [Next]_remote PROVE RemoteInv'
  OBVIOUS
<1> USE DEF RemoteInv, local
<1>1. ASSUME NEW r \in Requests, Create(r) PROVE RemoteInv'
  <2>1. TypeOK'
    BY <1>1 DEF Create, TypeOK, CloudStatus
  <2>2. OnePerKey'
    BY <1>1 DEF Create, TypeOK, OnePerKey
  <2>3. CloudAgrees'
    BY <1>1 DEF Create, TypeOK, CloudAgrees, Final
  <2> QED
    BY <1>1, <2>1, <2>2, <2>3 DEF Create, AppliedRows, AcksTrue
<1>2. ASSUME NEW r \in Requests, Expire(r) PROVE RemoteInv'
  BY <1>2 DEF Expire, TypeOK, AppliedRows, OnePerKey, AcksTrue, CloudAgrees
<1>3. CASE NodePending
  <2>1. Taken \subseteq Requests /\ \A r \in Taken : cloud[r] = "queued"
    BY DEF Taken, Offered
  <2>2. TypeOK'
    BY <1>3, <2>1 DEF NodePending, TypeOK, CloudStatus
  <2>3. OnePerKey'
    BY <1>3, <2>1 DEF NodePending, TypeOK, OnePerKey
  <2>4. CloudAgrees'
    BY <1>3, <2>1 DEF NodePending, TypeOK, CloudAgrees, Final
  <2> QED
    BY <1>3, <2>2, <2>3, <2>4 DEF NodePending, AppliedRows, AcksTrue
<1>4. ASSUME NEW m \in Managers, NodeAck(m) PROVE RemoteInv'
  <2>1. /\ manager[m] \in Acks
        /\ pending[manager[m].request] = manager[m].status
    BY <1>4 DEF NodeAck, TypeOK, AcksTrue
  <2>2. /\ manager[m].request \in Requests /\ manager[m].status \in Final
        /\ cloud[manager[m].request] \notin {"absent", "queued"}
    BY <2>1 DEF Acks, CloudAgrees, Final
  <2>3. TypeOK'
    BY <1>4, <2>2 DEF NodeAck, TypeOK, CloudStatus
  <2>4. OnePerKey'
    BY <1>4, <2>2 DEF NodeAck, TypeOK, OnePerKey, Final
  <2>5. CloudAgrees'
    BY <1>4, <2>1, <2>2 DEF NodeAck, TypeOK, CloudAgrees, Final
  <2>6. AcksTrue'
    BY <1>4 DEF NodeAck, TypeOK, AcksTrue
  <2> QED
    BY <1>4, <2>3, <2>4, <2>5, <2>6 DEF NodeAck, AppliedRows
<1>5. CASE PollAsk \/ PollSleep \/ PollFails
  BY <1>5 DEF PollAsk, PollSleep, PollFails, Asleep, TypeOK, AppliedRows, OnePerKey, AcksTrue, CloudAgrees
<1>6. CASE PollStore
  <2>1. Foremost \in poll.batch /\ Foremost \in Requests
    BY <1>6, ForemostOfBatch DEF PollStore
  <2>2. TypeOK'
    BY <1>6, <2>1 DEF PollStore, TypeOK, LocalStatus
  <2>3. AppliedRows'
    BY <1>6, <2>1 DEF PollStore, TypeOK, AppliedRows
  <2>4. AcksTrue'
    <3>1. ASSUME NEW m \in Managers, manager[m] # NoAck PROVE pending'[manager[m].request] = manager[m].status
      <4>1. manager[m] \in Acks /\ pending[manager[m].request] = manager[m].status
        BY <3>1 DEF TypeOK, AcksTrue
      <4> QED
        BY <1>6, <2>1, <4>1 DEF PollStore, TypeOK, Acks, Final
    <3> QED
      BY <1>6, <3>1 DEF PollStore, AcksTrue
  <2>5. CloudAgrees'
    BY <1>6, <2>1 DEF PollStore, TypeOK, CloudAgrees, Final
  <2> QED
    BY <1>6, <2>2, <2>3, <2>4, <2>5 DEF PollStore, OnePerKey
<1>7. CASE PollNotify
  <2>1. Foremost \in poll.batch /\ Foremost \in Requests
    BY <1>7, ForemostOfBatch DEF PollNotify, TypeOK
  <2>2. TypeOK'
    BY <1>7, <2>1 DEF PollNotify, TypeOK, AlertStatus
  <2> QED
    BY <1>7, <2>2 DEF PollNotify, AppliedRows, OnePerKey, AcksTrue, CloudAgrees
<1>8. ASSUME NEW arrives \in BOOLEAN, PullAlerts(arrives) PROVE RemoteInv'
  <2>1. TypeOK'
    BY <1>8 DEF PullAlerts, TypeOK, AlertStatus
  <2> QED
    BY <1>8, <2>1 DEF PullAlerts, AppliedRows, OnePerKey, AcksTrue, CloudAgrees
<1>9. ASSUME NEW m \in Managers, NEW r \in Requests, Reject(m, r) PROVE RemoteInv'
  BY <1>9, ResolvedOnce DEF Reject, Final, TypeOK
<1>10. ASSUME NEW m \in Managers, NEW r \in Requests, ApproveUnknown(m, r) PROVE RemoteInv'
  BY <1>10, ResolvedOnce DEF ApproveUnknown, Final, TypeOK
<1>11. ASSUME NEW m \in Managers, NEW r \in Requests, ApprovePrice(m, r) PROVE RemoteInv'
  <2>1. Wanted[r].price \in Prices
    BY RequestAssumption
  <2>2. price' \in [Skus -> Prices]
    BY <1>11, <2>1 DEF ApprovePrice, TypeOK
  <2> QED
    BY <1>11, <2>2, ResolvedOnce DEF ApprovePrice, Final
<1>12. ASSUME NEW m \in Managers, LoseAck(m) PROVE RemoteInv'
  BY <1>12 DEF LoseAck, TypeOK, AppliedRows, OnePerKey, AcksTrue, CloudAgrees
<1>13. ASSUME NEW s \in Skus, NEW v \in Prices, ChangePrice(s, v) PROVE RemoteInv'
  BY <1>13 DEF ChangePrice, TypeOK, AppliedRows, OnePerKey, AcksTrue, CloudAgrees
<1>14. CASE Crash
  BY <1>14 DEF Crash, Asleep, TypeOK, AppliedRows, OnePerKey, AcksTrue, CloudAgrees
<1>15. CASE UNCHANGED remote
  BY <1>15 DEF remote, TypeOK, AppliedRows, OnePerKey, AcksTrue, CloudAgrees, Foremost
<1> QED
  BY <1>1, <1>2, <1>3, <1>4, <1>5, <1>6, <1>7, <1>8, <1>9, <1>10, <1>11, <1>12, <1>13, <1>14, <1>15
  DEF Next, Resolve

-----------------------------------------------------------------------------
(* The theorems                                                            *)

\* The strengthened invariant: types, a row applied at most once per key and when its
\* status says so, and only outcomes that were decided under way to the control plane.
THEOREM RemoteInvariant == Spec => []RemoteInv
  BY RemoteStarts, RemoteSteps, PTL DEF Spec

\* The columns of the requests keep to their statuses, and what the poll loop, the
\* managers and the acknowledgements have in memory to the rows they are about
\* (remote/routes.py, main.py, cloud/routes.py).
THEOREM RemoteTypes == Spec => []TypeOK
<1>1. RemoteInv => TypeOK
  BY DEF RemoteInv
<1> QED
  BY <1>1, RemoteInvariant, PTL

\* confirm_remote_request carries a request out at most once in the life of its
\* idempotency key, and exactly when the row says applied.
THEOREM RemoteApplied == Spec => []AppliedOnce
<1>1. RemoteInv => AppliedOnce
  <2> SUFFICES ASSUME RemoteInv PROVE AppliedOnce
    OBVIOUS
  <2>1. ASSUME NEW r \in Requests, NEW q \in Requests, r # q, audit[r] + audit[q] > 1
        PROVE  KeyOf[r] # KeyOf[q]
    <3>1. pending[r] = "applied" /\ pending[q] = "applied"
      BY <2>1 DEF RemoteInv, AppliedRows
    <3>2. cloud[r] # "absent" /\ cloud[q] # "absent"
      BY <3>1 DEF RemoteInv, CloudAgrees
    <3> QED
      BY <2>1, <3>2 DEF RemoteInv, OnePerKey
  <2> QED
    BY <2>1 DEF AppliedOnce, RemoteInv, AppliedRows
<1> QED
  BY <1>1, RemoteInvariant, PTL

\* The outcome that the control plane shows is the one the branch committed, and no
\* poll brings a request a second time (node_pending, node_ack).
THEOREM RemoteAgrees == Spec => []CloudAgrees
<1>1. RemoteInv => CloudAgrees
  BY DEF RemoteInv
<1> QED
  BY <1>1, RemoteInvariant, PTL

\* What a lost reply or a batch that broke off left behind is never taken up again,
\* and a request past its expiry is never resolved.
LEMMA LeftSteps ==
  ASSUME RemoteInv, Next, NEW r \in Requests
  PROVE  /\ Stranded(r) => Stranded(r)'
         /\ Unannounced(r) => Unannounced(r)'
         /\ r \in late /\ pending[r] = "pending_confirmation" => UNCHANGED pending[r]
<1> DEFINE Left ==
      /\ Stranded(r) => Stranded(r)'
      /\ Unannounced(r) => Unannounced(r)'
      /\ r \in late /\ pending[r] = "pending_confirmation" => UNCHANGED pending[r]
<1> USE DEF RemoteInv, Stranded, Unannounced, local
<1>1. ASSUME NEW q \in Requests, Create(q) \/ Expire(q) PROVE Left
  BY <1>1 DEF Create, Expire, TypeOK
<1>2. CASE NodePending
  <2>1. r \in Taken => cloud[r] = "queued"
    BY DEF Taken, Offered
  <2>2. Unannounced(r) => cloud[r] # "queued"
    BY DEF CloudAgrees
  <2> QED
    BY <1>2, <2>1, <2>2 DEF NodePending, TypeOK
<1>3. ASSUME NEW m \in Managers, NodeAck(m) PROVE Left
  <2>1. manager[m] \in Acks /\ pending[manager[m].request] = manager[m].status
    BY <1>3 DEF NodeAck, TypeOK, AcksTrue
  <2>2. pending[manager[m].request] # "absent"
    BY <2>1 DEF Acks, Final
  <2> QED
    BY <1>3, <2>2 DEF NodeAck, TypeOK
<1>4. CASE PollAsk \/ PollSleep \/ PollFails
  BY <1>4 DEF PollAsk, PollSleep, PollFails, Asleep, TypeOK
<1>5. CASE PollStore \/ PollNotify
  <2>1. Foremost \in poll.batch
    BY <1>5, ForemostOfBatch DEF PollStore, PollNotify, TypeOK
  <2> QED
    BY <1>5, <2>1 DEF PollStore, PollNotify, TypeOK
<1>6. ASSUME NEW arrives \in BOOLEAN, PullAlerts(arrives) PROVE Left
  BY <1>6 DEF PullAlerts, TypeOK
<1>7. ASSUME NEW m \in Managers, NEW q \in Requests, NEW status \in Final,
             MayResolve(m, q), Resolved(m, q, status)
      PROVE  Left
  BY <1>7 DEF MayResolve, Resolved, TypeOK, Final
<1>8. ASSUME NEW m \in Managers, Resolve(m) PROVE Left
  BY <1>7, <1>8 DEF Resolve, Reject, ApproveUnknown, ApprovePrice, Final
<1>9. ASSUME NEW m \in Managers, LoseAck(m) PROVE Left
  BY <1>9 DEF LoseAck
<1>10. ASSUME NEW s \in Skus, NEW v \in Prices, ChangePrice(s, v) PROVE Left
  BY <1>10 DEF ChangePrice
<1>11. CASE Crash
  BY <1>11 DEF Crash, Asleep
<1> QED
  BY <1>1, <1>2, <1>3, <1>4, <1>5, <1>6, <1>8, <1>9, <1>10, <1>11 DEF Next

THEOREM RemoteLeft == Spec => LeftForGood
<1>1. RemoteInv /\ [Next]_remote =>
        [\A r \in Requests :
          /\ Stranded(r) => Stranded(r)'
          /\ Unannounced(r) => Unannounced(r)'
          /\ r \in late /\ pending[r] = "pending_confirmation" => UNCHANGED pending[r]]_remote
  BY LeftSteps
<1> QED
  BY <1>1, RemoteInvariant, PTL DEF Spec, LeftForGood

-----------------------------------------------------------------------------
(* The branch and the control plane implement OwnerRequests                *)

LEMMA PromiseStarts == Init => Promise!PromiseInit
  BY DEF Init, Promise!PromiseInit, Outcome, Final

\* A resolution is the decision.
LEMMA ResolutionDecides ==
  ASSUME RemoteInv, NEW m \in Managers, NEW r \in Requests, NEW status \in Final,
         MayResolve(m, r), Resolved(m, r, status)
  PROVE  /\ Outcome(pending, r) = "open"
         /\ [q \in Requests |-> Outcome(pending, q)]' =
              [[q \in Requests |-> Outcome(pending, q)] EXCEPT ![r] = status]
         /\ [q \in Requests |-> Outcome(cloud, q)]' = [q \in Requests |-> Outcome(cloud, q)]
  BY DEF RemoteInv, TypeOK, MayResolve, Resolved, Outcome, Final

\* Neither side's outcomes change: a stutter, or a price of the branch's own.
LEMMA NoOutcome ==
  ASSUME \A r \in Requests : Outcome(pending, r)' = Outcome(pending, r),
         \A r \in Requests : Outcome(cloud, r)' = Outcome(cloud, r)
  PROVE  /\ [r \in Requests |-> Outcome(pending, r)]' = [r \in Requests |-> Outcome(pending, r)]
         /\ [r \in Requests |-> Outcome(cloud, r)]' = [r \in Requests |-> Outcome(cloud, r)]
  OBVIOUS

LEMMA PromiseSteps == RemoteInv /\ [Next]_remote => [Promise!PromiseNext]_(Promise!promise)
<1> SUFFICES ASSUME RemoteInv, [Next]_remote PROVE [Promise!PromiseNext]_(Promise!promise)
  OBVIOUS
<1> DEFINE Still ==
      /\ \A r \in Requests : Outcome(pending, r)' = Outcome(pending, r)
      /\ \A r \in Requests : Outcome(cloud, r)' = Outcome(cloud, r)
<1> USE DEF local
<1>1. ASSUME Still, UNCHANGED price PROVE [Promise!PromiseNext]_(Promise!promise)
  BY <1>1, NoOutcome DEF Promise!promise
<1>2. ASSUME NEW r \in Requests, Create(r) \/ Expire(r) PROVE Still /\ UNCHANGED price
  BY <1>2 DEF Create, Expire, RemoteInv, TypeOK, Outcome, Final
<1>3. CASE NodePending
  <2>1. \A r \in Taken : cloud[r] = "queued"
    BY DEF Taken, Offered
  <2> QED
    BY <1>1, <1>3, <2>1 DEF NodePending, RemoteInv, TypeOK, Outcome, Final
<1>4. ASSUME NEW m \in Managers, NodeAck(m) PROVE Promise!PromiseNext
  <2> DEFINE r == manager[m].request
             status == manager[m].status
  <2>1. r \in Requests /\ status \in Final /\ pending[r] = status
    BY <1>4 DEF NodeAck, RemoteInv, TypeOK, AcksTrue, Acks
  <2>2. Outcome(pending, r) = status /\ status # "open"
    BY <2>1 DEF Outcome, Final
  <2>3. [q \in Requests |-> Outcome(cloud, q)]' = [[q \in Requests |-> Outcome(cloud, q)] EXCEPT ![r] = status]
    BY <1>4, <2>1 DEF NodeAck, RemoteInv, TypeOK, Outcome
  <2>4. Promise!Tell(r)
    BY <1>4, <2>1, <2>2, <2>3 DEF NodeAck, Promise!Tell
  <2> QED
    BY <2>1, <2>4 DEF Promise!PromiseNext
<1>5. CASE PollAsk \/ PollSleep \/ PollFails \/ PollNotify \/ Crash
  BY <1>1, <1>5 DEF PollAsk, PollSleep, PollFails, PollNotify, Crash, Outcome
<1>6. CASE PollStore
  BY <1>1, <1>6 DEF PollStore, RemoteInv, TypeOK, Outcome, Final
<1>7. ASSUME NEW arrives \in BOOLEAN, PullAlerts(arrives) PROVE Still /\ UNCHANGED price
  BY <1>7 DEF PullAlerts, Outcome
<1>8. ASSUME NEW m \in Managers, NEW r \in Requests, Reject(m, r) PROVE Promise!TurnDown(r, "rejected")
  BY <1>8, ResolutionDecides DEF Reject, Promise!TurnDown, Final
<1>9. ASSUME NEW m \in Managers, NEW r \in Requests, ApproveUnknown(m, r) PROVE Promise!TurnDown(r, "failed")
  BY <1>9, ResolutionDecides DEF ApproveUnknown, Promise!TurnDown, Final
<1>10. ASSUME NEW m \in Managers, NEW r \in Requests, ApprovePrice(m, r) PROVE Promise!Apply(r)
  BY <1>10, ResolutionDecides DEF ApprovePrice, Promise!Apply, Final
<1>11. ASSUME NEW m \in Managers, Resolve(m) PROVE Promise!PromiseNext
  <2>1. "rejected" \in Final /\ "failed" \in Final
    BY DEF Final
  <2> QED
    BY <1>8, <1>9, <1>10, <1>11, <2>1 DEF Resolve, Promise!PromiseNext
<1>12. ASSUME NEW m \in Managers, LoseAck(m) PROVE Still /\ UNCHANGED price
  BY <1>12 DEF LoseAck, Outcome
<1>13. ASSUME NEW s \in Skus, NEW v \in Prices, ChangePrice(s, v) PROVE Promise!PromiseNext
  BY <1>13 DEF ChangePrice, Promise!PromiseNext, Promise!SetPrice, Outcome
<1>14. CASE UNCHANGED remote
  BY <1>1, <1>14 DEF remote, Outcome
<1> QED
  BY <1>1, <1>2, <1>3, <1>4, <1>5, <1>6, <1>7, <1>11, <1>12, <1>13, <1>14 DEF Next

\* Each request is decided at most once, a price takes effect with the decision, and
\* the owner is told nothing else: the requests keep the promise of OwnerRequests.
THEOREM RemoteKeepsPromise == Spec => PromiseKept
  BY PromiseStarts, PromiseSteps, RemoteInvariant, PTL DEF Spec, PromiseKept, Promise!PromiseSpec

=============================================================================
