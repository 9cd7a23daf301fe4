-------------------------- MODULE EventAdmin_proofs --------------------------
(***************************************************************************)
(* AdminInv is an inductive invariant of EventAdmin, and what its action   *)
(* properties rest on.                                                     *)
(*                                                                         *)
(* RequestStep is about a request that moves on and leaves the event and   *)
(* its tiers alone, WriteStep about one that changes them, OthersStep      *)
(* about buyers, the worker and the periodic job; every action has a lemma *)
(* of its own on top of the three.                                         *)
(***************************************************************************)
EXTENDS EventAdmin, InductionLemmas

(* What a request carries, by its step.                                    *)
LEMMA RequestParts ==
  ASSUME NEW q \in RequestRecord
  PROVE  /\ q.step \in {"void", "task"} => q.buyers \in SUBSET Purchases
         /\ q.step = "insert_tier" => q.tier \in Tiers /\ q.quantity \in Quantities
         /\ q.step = "delete_tier" => q.tier \in Tiers
         /\ q.step = "payload" => q.seen \in EventRow
         /\ q.step = "update" => q.new \in Changed /\ q.material \in BOOLEAN
         /\ q.step = "notice" => q.stamps \in SUBSET Stamps
BY DEF RequestRecord

(* An idle request carries nothing.                                        *)
LEMMA IdleRequest ==
  /\ Idle \in RequestRecord /\ Idle.step = "idle"
  /\ CarriesPast(Idle) /\ ReadStillHolds(Idle)
<1>1. Idle \in RequestRecord /\ Idle.step = "idle"
  BY DEF Idle, RequestRecord
<1> QED BY <1>1 DEF CarriesPast, ReadStillHolds

Statuses == {"none", "asking", "confirmed", "cancelled", "gone"}

(* The rows and tasks of a state have their types.                         *)
LEMMA Typed ==
  ASSUME AdminInv
  PROVE  /\ event \in EventRow /\ request \in [Requests -> RequestRecord]
         /\ size \in [Tiers -> {0} \cup Quantities]
         /\ purchase \in [Purchases -> Statuses]
         /\ clock \in 0 .. MaxStamp /\ clock \in Nat /\ Stamps \subseteq Nat
         /\ notices \subseteq Stamps /\ overtaken \subseteq Requests
         /\ event.status = "gone" => \A t \in Tiers : size[t] = 0
         /\ \A p \in Purchases : purchase[p] \notin {"none", "gone"} => size[TierOf[p]] > 0
BY AdminAssumption DEF AdminInv, TypeOK, Stamps, Statuses

(* The stamps that a request carries stay past.                            *)
LEMMA PastStays ==
  ASSUME AdminInv, clock' \in Nat, clock <= clock', NEW s \in Requests
  PROVE  CarriesPast(request[s])' \/ request'[s] # request[s]
<1> SUFFICES ASSUME request'[s] = request[s] PROVE CarriesPast(request[s])'
  OBVIOUS
<1> PICK w \in RequestRecord : w = request[s]
  BY Typed
<1>1. CarriesPast(w)
  BY DEF AdminInv
<1>2. w.step = "payload" => \A n \in w.seen.changedAt : n \in Nat /\ n <= clock
  BY <1>1, Typed, RequestParts DEF CarriesPast, EventRow
<1>3. w.step = "update" => \A n \in w.new.changedAt : n \in Nat /\ n <= clock
  BY <1>1, Typed, RequestParts DEF CarriesPast, Changed
<1>4. clock \in Nat
  BY Typed
<1> QED BY <1>2, <1>3, <1>4 DEF CarriesPast

(* A step keeps AdminInv when the moved request carries the past and what  *)
(* those have read that are not overtaken still holds.                     *)
LEMMA AdminStep ==
  ASSUME AdminInv, TypeOK', clock <= clock',
         \A s \in Requests : request'[s] # request[s] => CarriesPast(request[s])',
         event'.status = "draft" => \A p \in Purchases : purchase'[p] = "none",
         \A s \in event'.changedAt : s <= clock',
         \A s \in Requests : s \notin overtaken' => ReadStillHolds(request[s])'
  PROVE  AdminInv'
<1>1. clock' \in Nat
  BY AdminAssumption DEF TypeOK
<1>2. \A s \in Requests : CarriesPast(request[s])'
  BY <1>1, PastStays
<1> QED BY <1>2 DEF AdminInv

(* A step that moves a request and leaves the event and its tiers alone.   *)
LEMMA RequestStep ==
  ASSUME AdminInv, NEW r \in Requests, NEW q \in RequestRecord,
         request' = [request EXCEPT ![r] = q],
         UNCHANGED <<event, size>>, purchase' \in [Purchases -> Statuses],
         \A p \in Purchases : purchase[p] \in {"none", "gone"} => purchase'[p] = purchase[p],
         clock' \in clock .. MaxStamp, notices' \subseteq Stamps,
         overtaken' \in {overtaken, overtaken \ {r}},
         CarriesPast(q)',
         r \notin overtaken' => ReadStillHolds(q)
  PROVE  AdminInv'
<1>1. /\ request' \in [Requests -> RequestRecord] /\ request'[r] = q
      /\ \A s \in Requests \ {r} : request'[s] = request[s]
  BY Typed
<1>2. clock <= clock' /\ clock' \in 0 .. MaxStamp
  BY Typed, AdminAssumption
<1>3. TypeOK'
  <2>1. overtaken' \subseteq Requests
    BY Typed
  <2>2. \A p \in Purchases : purchase'[p] \notin {"none", "gone"} => size[TierOf[p]] > 0
    BY Typed
  <2> QED BY <1>1, <1>2, <2>1, <2>2, Typed DEF TypeOK, Statuses
<1>4. \A s \in Requests : request'[s] # request[s] => CarriesPast(request[s])'
  BY <1>1 DEF CarriesPast
<1>5. event'.status = "draft" => \A p \in Purchases : purchase'[p] = "none"
  BY DEF AdminInv
<1>6. \A s \in event'.changedAt : s <= clock'
  <2>1. \A s \in event.changedAt : s \in Nat /\ s <= clock
    BY Typed DEF AdminInv, EventRow
  <2> QED BY <1>2, <2>1, Typed
<1>7. ASSUME NEW s \in Requests, s \notin overtaken' PROVE ReadStillHolds(request[s])'
  <2>1. CASE s = r
    BY <1>1, <1>7, <2>1 DEF ReadStillHolds
  <2>2. CASE s # r
    <3>1. s \notin overtaken /\ ReadStillHolds(request[s]) /\ request'[s] = request[s]
      BY <1>1, <1>7, <2>2 DEF AdminInv
    <3> QED BY <3>1 DEF ReadStillHolds
  <2> QED BY <2>1, <2>2
<1> QED BY <1>2, <1>3, <1>4, <1>5, <1>6, <1>7, AdminStep

(* A statement of request r that changes the event or its tiers: whatever  *)
(* others under way have read is overtaken.                                *)
LEMMA WriteStep ==
  ASSUME AdminInv, NEW r \in Requests, NEW q \in RequestRecord,
         request' = [request EXCEPT ![r] = q], Overtake(r), UNCHANGED <<clock, notices>>,
         q.step \in {"idle", "buyers", "notice"},
         event' \in EventRow, \A s \in event'.changedAt : s <= clock,
         size' \in [Tiers -> {0} \cup Quantities], purchase' \in [Purchases -> Statuses],
         event'.status = "gone" => \A t \in Tiers : size'[t] = 0,
         \A p \in Purchases : purchase'[p] \notin {"none", "gone"} => size'[TierOf[p]] > 0,
         event'.status = "draft" => \A p \in Purchases : purchase'[p] = "none"
  PROVE  AdminInv'
<1>1. /\ request' \in [Requests -> RequestRecord] /\ request'[r] = q
      /\ \A s \in Requests \ {r} : request'[s] = request[s]
  BY Typed
<1>2. overtaken' \subseteq Requests /\ \A s \in Requests \ {r} : s \notin overtaken' => request[s] = Idle
  BY DEF Overtake
<1>3. TypeOK'
  BY <1>1, <1>2, Typed DEF TypeOK, Statuses
<1>4. clock <= clock'
  BY Typed
<1>5. \A s \in Requests : request'[s] # request[s] => CarriesPast(request[s])'
  BY <1>1 DEF CarriesPast
<1>6. ASSUME NEW s \in Requests, s \notin overtaken' PROVE ReadStillHolds(request[s])'
  <2>1. request'[s].step \in {"idle", "buyers", "notice"}
    BY <1>1, <1>2, <1>6, IdleRequest
  <2> QED BY <2>1 DEF ReadStillHolds
<1> QED BY <1>3, <1>4, <1>5, <1>6, AdminStep

(* A step of others, of which the event may only be over.                  *)
LEMMA OthersStep ==
  ASSUME AdminInv, UNCHANGED <<size, request, clock, overtaken>>,
         event' \in EventRow, event'.changedAt = event.changedAt, event'.terms = event.terms,
         event'.status # event.status =>
            event.status # "draft" /\ event'.status \notin {"draft", "published", "gone"},
         notices' \subseteq Stamps, purchase' \in [Purchases -> Statuses],
         \A p \in Purchases : purchase'[p] \notin {"none", "gone"} => size[TierOf[p]] > 0,
         event.status = "draft" => UNCHANGED purchase
  PROVE  AdminInv'
<1>1. TypeOK'
  BY Typed DEF TypeOK, Statuses
<1>2. ASSUME NEW s \in Requests, s \notin overtaken PROVE ReadStillHolds(request[s])'
  <2>1. PICK w : w = request[s]
    OBVIOUS
  <2>2. ReadStillHolds(w) /\ request'[s] = w
    BY <1>2, <2>1 DEF AdminInv
  <2>3. ReadStillHolds(w)'
    <3>1. CASE event'.status = event.status
      BY <2>2, <3>1 DEF ReadStillHolds
    <3>2. CASE event'.status # event.status
      BY <2>2, <3>2 DEF ReadStillHolds
    <3> QED BY <3>1, <3>2
  <2> QED BY <2>2, <2>3 DEF ReadStillHolds
<1>3. clock <= clock' /\ \A s \in event'.changedAt : s <= clock'
  BY Typed DEF AdminInv
<1>4. event'.status = "draft" => \A p \in Purchases : purchase'[p] = "none"
  BY DEF AdminInv
<1> QED BY <1>1, <1>2, <1>3, <1>4, AdminStep

-----------------------------------------------------------------------------

(* A request moves on and writes nothing.                                  *)
LEMMA MoveStep ==
  ASSUME AdminInv, NEW r \in Requests, NEW q \in RequestRecord,
         request' = [request EXCEPT ![r] = q], UNCHANGED <<rowVars, clock, restVars>>,
         CarriesPast(q), r \notin overtaken => ReadStillHolds(q)
  PROVE  AdminInv'
<1>1. UNCHANGED <<event, size, purchase, clock, notices, overtaken>>
  BY DEF rowVars, restVars
<1>2. clock' \in clock .. MaxStamp
  BY <1>1, Typed, AdminAssumption
<1>3. CarriesPast(q)'
  BY <1>1 DEF CarriesPast
<1> QED BY <1>1, <1>2, <1>3, Typed, RequestStep

(* A request that ends.                                                    *)
LEMMA AnswerStep ==
  ASSUME AdminInv, NEW r \in Requests, Answer(r), UNCHANGED <<rowVars, clock, restVars>>
  PROVE  AdminInv'
BY IdleRequest, MoveStep DEF Answer, Continue

(* requireEventOrganizer: what it reads of the event holds still.          *)
LEMMA BeginStep ==
  ASSUME AdminInv, NEW r \in Requests, NEW statuses, NEW q \in RequestRecord,
         Begin(r, statuses, q), CarriesPast(q), event.status \in statuses => ReadStillHolds(q)
  PROVE  AdminInv'
<1>1. /\ request' = [request EXCEPT ![r] = q] /\ event.status \in statuses
      /\ UNCHANGED <<event, size, purchase, clock, notices>> /\ overtaken' = overtaken \ {r}
  BY DEF Begin, Continue, rowVars
<1>2. clock' \in clock .. MaxStamp
  BY <1>1, Typed, AdminAssumption
<1>3. CarriesPast(q)'
  BY <1>1 DEF CarriesPast
<1> QED BY <1>1, <1>2, <1>3, Typed, RequestStep

(* The first step of each request.                                         *)
LEMMA BeginsStep ==
  ASSUME AdminInv, NEW r \in Requests,
         \/ PublishBegin(r) \/ CancelBegin(r) \/ DeleteBegin(r) \/ UpdateBegin(r)
         \/ \E t \in Tiers, n \in Quantities : TierBegin(r, t, n)
         \/ \E t \in Tiers : TierDeleteBegin(r, t)
  PROVE  AdminInv'
<1>1. ASSUME NEW to \in {"publish_count", "cancel", "delete"}, NEW statuses,
             Begin(r, statuses, [step |-> to]), to # "cancel" => statuses = {"draft"}
      PROVE  AdminInv'
  <2>1. PICK q : q = [step |-> to]
    OBVIOUS
  <2>2. q \in RequestRecord /\ q.step = to /\ Begin(r, statuses, q)
    BY <1>1, <2>1 DEF RequestRecord
  <2>3. CarriesPast(q) /\ (event.status \in statuses => ReadStillHolds(q))
    BY <1>1, <2>2 DEF CarriesPast, ReadStillHolds
  <2> QED BY <2>2, <2>3, BeginStep
<1>2. CASE UpdateBegin(r)
  <2>1. PICK q : q = [step |-> "payload", seen |-> event]
    OBVIOUS
  <2>2. q \in RequestRecord /\ q.step = "payload" /\ q.seen = event
    BY <2>1 DEF RequestRecord, AdminInv, TypeOK
  <2>3. CarriesPast(q) /\ ReadStillHolds(q)
    BY <2>2 DEF CarriesPast, ReadStillHolds, AdminInv
  <2>4. PICK statuses : Begin(r, statuses, q)
    BY <1>2, <2>1 DEF UpdateBegin
  <2> QED BY <2>2, <2>3, <2>4, BeginStep
<1>3. ASSUME NEW t \in Tiers, NEW n \in Quantities, TierBegin(r, t, n) PROVE AdminInv'
  <2>1. PICK q : q = [step |-> "insert_tier", tier |-> t, quantity |-> n]
    OBVIOUS
  <2>2. q \in RequestRecord /\ q.step = "insert_tier" /\ Begin(r, {"draft"}, q)
    BY <1>3, <2>1 DEF RequestRecord, TierBegin
  <2>3. CarriesPast(q) /\ (event.status \in {"draft"} => ReadStillHolds(q))
    BY <2>2 DEF CarriesPast, ReadStillHolds
  <2> QED BY <2>2, <2>3, BeginStep
<1>4. ASSUME NEW t \in Tiers, TierDeleteBegin(r, t) PROVE AdminInv'
  <2>1. PICK q : q = [step |-> "delete_tier", tier |-> t]
    OBVIOUS
  <2>2. q \in RequestRecord /\ q.step = "delete_tier" /\ Begin(r, {"draft"}, q)
    BY <1>4, <2>1 DEF RequestRecord, TierDeleteBegin, TiersOpen
  <2>3. CarriesPast(q) /\ (event.status \in {"draft"} => ReadStillHolds(q))
    BY <2>2 DEF CarriesPast, ReadStillHolds
  <2> QED BY <2>2, <2>3, BeginStep
<1> QED BY <1>1, <1>2, <1>3, <1>4 DEF PublishBegin, CancelBegin, DeleteBegin

(* publishEvent counts the tiers before it publishes.                      *)
LEMMA PublishCountStep ==
  ASSUME AdminInv, NEW r \in Requests, PublishCount(r)
  PROVE  AdminInv'
<1>1. request[r].step = "publish_count" /\ UNCHANGED <<rowVars, clock, restVars>>
  BY DEF PublishCount
<1>2. CASE ~EnoughTiers
  BY <1>1, <1>2, AnswerStep DEF PublishCount
<1>3. CASE EnoughTiers
  <2>1. \E t \in Tiers : size[t] > 0
    <3>1. {t \in Tiers : size[t] > 0} # {}
      BY <1>3, FS_EmptySet DEF EnoughTiers
    <3> QED BY <3>1
  <2>2. PICK q : q = [step |-> "publish"]
    OBVIOUS
  <2>3. q \in RequestRecord /\ q.step = "publish" /\ request' = [request EXCEPT ![r] = q]
    BY <1>3, <2>2 DEF RequestRecord, PublishCount, Continue
  <2>4. CarriesPast(q)
    BY <2>3 DEF CarriesPast
  <2>5. r \notin overtaken => ReadStillHolds(q)
    BY <1>1, <2>1, <2>3 DEF AdminInv, ReadStillHolds
  <2> QED BY <1>1, <2>3, <2>4, <2>5, MoveStep
<1> QED BY <1>2, <1>3

(* cancelEvent asks for the buyers.                                        *)
LEMMA ListBuyersStep ==
  ASSUME AdminInv, NEW r \in Requests, ListBuyers(r)
  PROVE  AdminInv'
<1>1. PICK q : q = [step |-> "void", buyers |-> ListedBuyers]
  OBVIOUS
<1>2. q \in RequestRecord /\ q.step = "void"
  BY <1>1 DEF RequestRecord, ListedBuyers, Confirmed
<1>3. CarriesPast(q) /\ ReadStillHolds(q)
  BY <1>2 DEF CarriesPast, ReadStillHolds
<1> QED BY <1>1, <1>2, <1>3, MoveStep DEF ListBuyers, Continue

(* cancelEvent flips the purchases, or fails to.                           *)
LEMMA VoidPurchasesStep ==
  ASSUME AdminInv, NEW r \in Requests, VoidPurchases(r)
  PROVE  AdminInv'
<1> PICK w \in RequestRecord : w = request[r]
  BY Typed
<1>1. /\ w.step = "void" /\ UNCHANGED <<event, size, clock, notices, overtaken>>
      /\ request' = [request EXCEPT ![r] = [w EXCEPT !.step = "task"]]
      /\ \/ purchase' = [p \in Purchases |-> IF p \in Confirmed THEN "cancelled" ELSE purchase[p]]
         \/ UNCHANGED purchase
  BY DEF VoidPurchases, Continue, restVars
<1>2. PICK q \in RequestRecord : q = [w EXCEPT !.step = "task"] /\ q.step = "task"
  <2>1. w = [step |-> "void", buyers |-> w.buyers] /\ w.buyers \in SUBSET Purchases
    BY <1>1, RequestParts DEF RequestRecord
  <2>2. PICK q : q = [step |-> "task", buyers |-> w.buyers]
    OBVIOUS
  <2>3. q \in RequestRecord /\ q.step = "task"
    BY <2>1, <2>2 DEF RequestRecord
  <2> QED BY <2>1, <2>2, <2>3
<1>3. /\ purchase' \in [Purchases -> Statuses]
      /\ \A p \in Purchases : purchase[p] \in {"none", "gone"} => purchase'[p] = purchase[p]
  BY <1>1, Typed DEF Confirmed, Statuses
<1>4. CarriesPast(q)' /\ ReadStillHolds(q)
  BY <1>2 DEF CarriesPast, ReadStillHolds
<1>5. clock' \in clock .. MaxStamp
  BY <1>1, Typed, AdminAssumption
<1> QED BY <1>1, <1>2, <1>3, <1>4, <1>5, Typed, RequestStep

(* updateEvent decides: a confirmed material change gets a stamp of its    *)
(* own, later than any other.                                              *)
LEMMA UpdatePayloadStep ==
  ASSUME AdminInv, NEW r \in Requests, UpdatePayload(r)
  PROVE  AdminInv'
<1>1. /\ request[r].step = "payload" /\ request[r] \in RequestRecord
      /\ UNCHANGED <<rowVars, restVars>> /\ clock \in 0 .. MaxStamp
      /\ event \in EventRow /\ \A s \in event.changedAt : s <= clock
  BY DEF UpdatePayload, UpdateDecide, AdminInv, TypeOK
<1> PICK w \in RequestRecord, seen \in EventRow : w = request[r] /\ w.seen = seen
  BY <1>1, RequestParts
<1>2. /\ \A s \in seen.changedAt : s \in Stamps /\ s <= clock
      /\ r \notin overtaken =>
            /\ seen.terms = event.terms /\ seen.changedAt = event.changedAt
            /\ event.status = "published" => seen.status = "published"
  BY <1>1 DEF AdminInv, CarriesPast, ReadStillHolds, EventRow
<1>3. PICK cap \in Caps, terms \in Terms, material \in BOOLEAN, confirm \in BOOLEAN :
         UpdateDecide(r, cap, terms, material, confirm)
  BY DEF UpdatePayload
<1> DEFINE new == [capacity |-> IF cap = {} THEN seen.capacity ELSE cap,
                   terms |-> IF material THEN terms ELSE seen.terms,
                   changedAt |-> Stamp(seen, material)]
           stamped == new.changedAt # seen.changedAt
           q == [step |-> "update", new |-> new, material |-> material]
<1>4. \/ Answer(r) /\ UNCHANGED clock
      \/ /\ request' = [request EXCEPT ![r] = q]
         /\ stamped => clock < MaxStamp
         /\ clock' = IF stamped THEN clock + 1 ELSE clock
  BY <1>3 DEF UpdateDecide, Continue
<1>5. CASE Answer(r) /\ UNCHANGED clock
  BY <1>1, <1>5, AnswerStep
<1>6. CASE /\ request' = [request EXCEPT ![r] = q]
           /\ stamped => clock < MaxStamp
           /\ clock' = IF stamped THEN clock + 1 ELSE clock
  <2>1. \/ seen.status = "published" /\ material /\ new.changedAt = {clock + 1} /\ stamped
        \/ ~(seen.status = "published" /\ material) /\ new.changedAt = seen.changedAt /\ ~stamped
    BY <1>1, <1>2 DEF Stamp, Stamps
  <2>2. clock' \in clock .. MaxStamp /\ \A n \in new.changedAt : n \in Stamps /\ n <= clock'
    BY <1>1, <1>2, <1>6, <2>1, AdminAssumption DEF Stamps
  <2>3. new \in Changed
    <3>1. Stamp(seen, material) \in {{}} \cup {{n} : n \in Stamps}
      BY <2>1, <2>2 DEF EventRow
    <3>2. seen.capacity \in Caps /\ seen.terms \in Terms
      BY DEF EventRow
    <3> QED BY <3>1, <3>2 DEF Changed
  <2>4. new.terms = IF material THEN terms ELSE seen.terms
    OBVIOUS
  <2> PICK u : u = new
    OBVIOUS
  <2>5. PICK v : v = [step |-> "update", new |-> u, material |-> material]
    OBVIOUS
  <2>6. /\ v \in RequestRecord /\ v.step = "update" /\ v.new = u
        /\ request' = [request EXCEPT ![r] = v]
    BY <1>6, <2>3, <2>5 DEF RequestRecord
  <2> HIDE DEF new, stamped
  <2>7. CarriesPast(v)'
    BY <2>2, <2>6 DEF CarriesPast
  <2>8. ASSUME r \notin overtaken PROVE ReadStillHolds(v)
    <3>1. event.status = "published" /\ new.terms # event.terms => new.changedAt \notin {{}, event.changedAt}
      BY <1>1, <1>2, <2>1, <2>4, <2>8
    <3>2. \A s \in event.changedAt, n \in new.changedAt : n >= s
      BY <1>1, <1>2, <2>1, <2>8 DEF EventRow, Stamps
    <3> QED BY <2>6, <3>1, <3>2 DEF ReadStillHolds
  <2>9. UNCHANGED <<event, size, purchase, notices, overtaken>>
    BY <1>1 DEF rowVars, restVars
  <2> QED BY <2>2, <2>6, <2>7, <2>8, <2>9, Typed, RequestStep
<1> QED BY <1>4, <1>5, <1>6

(* updateEvent queues its task, or logs that it could not.                 *)
LEMMA EnqueueUpdatedStep ==
  ASSUME AdminInv, NEW r \in Requests, EnqueueUpdated(r)
  PROVE  AdminInv'
<1> PICK w \in RequestRecord, stamps \in SUBSET Stamps : w = request[r] /\ w.stamps = stamps
  BY Typed, RequestParts DEF EnqueueUpdated
<1>1. /\ request' = [request EXCEPT ![r] = Idle]
      /\ UNCHANGED <<event, size, purchase, clock, overtaken>>
      /\ notices' = notices \cup stamps \/ notices' = notices
  BY DEF EnqueueUpdated, Answer, Continue, rowVars
<1>2. clock' \in clock .. MaxStamp /\ notices' \subseteq Stamps
  BY <1>1, Typed, AdminAssumption
<1>3. CarriesPast(Idle)'
  BY IdleRequest DEF CarriesPast
<1> QED BY <1>1, <1>2, <1>3, Typed, IdleRequest, RequestStep

(* cancelEvent queues its task; a query of a request fails.                *)
LEMMA EndsStep ==
  ASSUME AdminInv, NEW r \in Requests, EnqueueCancelled(r) \/ RequestFail(r)
  PROVE  AdminInv'
BY AnswerStep DEF EnqueueCancelled, RequestFail

-----------------------------------------------------------------------------

(* A status of the event is written, and the request goes on.              *)
LEMMA StatusStep ==
  ASSUME AdminInv, NEW r \in Requests, NEW q \in RequestRecord,
         NEW status \in {"published", "cancelled"},
         event.status # "gone", event' = [event EXCEPT !.status = status],
         request' = [request EXCEPT ![r] = q], Overtake(r),
         UNCHANGED <<size, purchase, clock, notices>>,
         q.step \in {"idle", "buyers"}
  PROVE  AdminInv'
<1>1. /\ event' \in EventRow /\ event'.status = status
      /\ event'.changedAt = event.changedAt
  BY Typed DEF EventRow
<1>2. \A s \in event'.changedAt : s <= clock
  BY <1>1 DEF AdminInv
<1> QED BY <1>1, <1>2, Typed, WriteStep

(* publishEvent's statement finds a draft, or the request ends.            *)
LEMMA PublishWriteStep ==
  ASSUME AdminInv, NEW r \in Requests, PublishWrite(r)
  PROVE  AdminInv'
<1>1. CASE Conflict(r) /\ UNCHANGED clock
  BY <1>1, AnswerStep DEF Conflict
<1>2. CASE MayPublish /\ ~(Conflict(r) /\ UNCHANGED clock)
  <2>1. /\ event' = [event EXCEPT !.status = "published"] /\ event.status # "gone"
        /\ request' = [request EXCEPT ![r] = Idle] /\ Overtake(r)
        /\ UNCHANGED <<size, purchase, clock, notices>>
    BY <1>2 DEF PublishWrite, MayPublish, Answer, Continue
  <2> QED BY <2>1, IdleRequest, StatusStep
<1> QED BY <1>1, <1>2 DEF PublishWrite

(* cancelEvent's first statement finds an event to cancel, or the request  *)
(* ends.                                                                   *)
LEMMA CancelWriteStep ==
  ASSUME AdminInv, NEW r \in Requests, CancelWrite(r)
  PROVE  AdminInv'
<1>1. CASE Conflict(r) /\ UNCHANGED clock
  BY <1>1, AnswerStep DEF Conflict
<1>2. CASE MayCancelEvent /\ ~(Conflict(r) /\ UNCHANGED clock)
  <2>1. PICK q : q = [step |-> "buyers"]
    OBVIOUS
  <2>2. q \in RequestRecord /\ q.step = "buyers"
    BY <2>1 DEF RequestRecord
  <2>3. /\ event' = [event EXCEPT !.status = "cancelled"] /\ event.status # "gone"
        /\ request' = [request EXCEPT ![r] = q] /\ Overtake(r)
        /\ UNCHANGED <<size, purchase, clock, notices>>
    BY <1>2, <2>1 DEF CancelWrite, MayCancelEvent, Continue
  <2> QED BY <2>2, <2>3, StatusStep
<1> QED BY <1>1, <1>2 DEF CancelWrite

(* ON DELETE CASCADE takes the purchases of tiers that nobody is buying    *)
(* from along: what is left below such a tier was never sold.              *)
LEMMA CascadeFacts ==
  ASSUME AdminInv, NEW group \in SUBSET Tiers, \A t \in group : TierFree(t),
         purchase' = Cascade(group)
  PROVE  /\ purchase' \in [Purchases -> Statuses]
         /\ \A p \in Purchases :
               purchase'[p] \notin {"none", "gone"} => TierOf[p] \notin group /\ size[TierOf[p]] > 0
         /\ (\A p \in Purchases : purchase[p] = "none") =>
               \A p \in Purchases : purchase'[p] = "none"
<1>1. \A p \in Purchases :
         /\ purchase[p] \in Statuses
         /\ purchase'[p] = IF TierOf[p] \in group /\ purchase[p] \in {"confirmed", "cancelled"}
                           THEN "gone" ELSE purchase[p]
         /\ TierOf[p] \in group => purchase[p] # "asking"
  BY Typed DEF Cascade, Bought, TierFree
<1>2. purchase' \in [Purchases -> Statuses]
  BY <1>1 DEF Cascade, Statuses
<1>3. ASSUME NEW p \in Purchases, purchase'[p] \notin {"none", "gone"}
      PROVE  TierOf[p] \notin group /\ size[TierOf[p]] > 0
  BY <1>1, <1>3, Typed DEF Statuses
<1> QED BY <1>1, <1>2, <1>3

(* deleteEvent empties the tiers with the event.                           *)
LEMMA DeleteWriteStep ==
  ASSUME AdminInv, NEW r \in Requests, DeleteWrite(r)
  PROVE  AdminInv'
<1>1. /\ \A t \in Tiers : TierFree(t)
      /\ event' = [event EXCEPT !.status = "gone"] /\ size' = [t \in Tiers |-> 0]
      /\ purchase' = Cascade(Tiers) /\ request' = [request EXCEPT ![r] = Idle]
      /\ Overtake(r) /\ UNCHANGED <<clock, notices>>
  BY DEF DeleteWrite, Answer, Continue
<1>2. /\ event' \in EventRow /\ event'.status = "gone"
      /\ \A s \in event'.changedAt : s <= clock
  BY <1>1, Typed DEF EventRow, AdminInv
<1>3. size' \in [Tiers -> {0} \cup Quantities] /\ \A t \in Tiers : size'[t] = 0
  BY <1>1
<1>4. /\ purchase' \in [Purchases -> Statuses]
      /\ \A p \in Purchases : purchase'[p] \in {"none", "gone"}
  BY <1>1, CascadeFacts, AdminAssumption
<1> QED BY <1>1, <1>2, <1>3, <1>4, IdleRequest, WriteStep

(* createTier inserts its tier into an event that is there.                *)
LEMMA TierInsertStep ==
  ASSUME AdminInv, NEW r \in Requests, TierInsert(r)
  PROVE  AdminInv'
<1> PICK w \in RequestRecord : w = request[r]
  BY Typed
<1>1. /\ w.step = "insert_tier" /\ UNCHANGED <<event, purchase, clock, notices>>
      /\ request' = [request EXCEPT ![r] = Idle] /\ Overtake(r)
  BY DEF TierInsert, Answer, Continue
<1>2. w.tier \in Tiers /\ w.quantity \in Quantities /\ w.quantity > 0
  <2>1. w.tier \in Tiers /\ w.quantity \in Quantities
    BY <1>1, RequestParts
  <2>2. \A n \in Quantities : n > 0
    <3>1. \A n \in Nat \ {0} : n > 0
      OBVIOUS
    <3> QED BY <3>1, AdminAssumption
  <2> QED BY <2>1, <2>2
<1>3. /\ size' \in [Tiers -> {0} \cup Quantities]
      /\ event.status = "gone" => size' = size
      /\ \A t \in Tiers : size'[t] = size[t] \/ size'[t] > 0
  BY <1>2, Typed DEF TierInsert
<1>4. \A p \in Purchases : purchase'[p] \notin {"none", "gone"} => size'[TierOf[p]] > 0
  BY <1>1, <1>3, Typed, AdminAssumption
<1>5. /\ event' \in EventRow /\ purchase' \in [Purchases -> Statuses]
      /\ event'.status = "gone" => \A t \in Tiers : size'[t] = 0
      /\ event'.status = "draft" => \A p \in Purchases : purchase'[p] = "none"
      /\ \A s \in event'.changedAt : s <= clock
  BY <1>1, <1>3, Typed DEF AdminInv
<1> QED BY <1>1, <1>3, <1>4, <1>5, IdleRequest, WriteStep

(* deleteTier takes the purchases of its tier along.                       *)
LEMMA TierDeleteStep ==
  ASSUME AdminInv, NEW r \in Requests, TierDelete(r)
  PROVE  AdminInv'
<1> PICK w \in RequestRecord : w = request[r]
  BY Typed
<1>1. /\ w.step = "delete_tier" /\ w.tier \in Tiers /\ TierFree(w.tier)
      /\ UNCHANGED <<event, clock, notices>> /\ Overtake(r)
      /\ request' = [request EXCEPT ![r] = Idle]
      /\ size' = [size EXCEPT ![w.tier] = 0] /\ purchase' = Cascade({w.tier})
  BY RequestParts DEF TierDelete, Answer, Continue
<1>2. /\ purchase' \in [Purchases -> Statuses]
      /\ \A p \in Purchases :
            purchase'[p] \notin {"none", "gone"} => TierOf[p] # w.tier /\ size[TierOf[p]] > 0
      /\ (\A p \in Purchases : purchase[p] = "none") =>
            \A p \in Purchases : purchase'[p] = "none"
  <2>1. PICK group \in SUBSET Tiers : group = {w.tier}
    BY <1>1
  <2> QED BY <1>1, <2>1, CascadeFacts
<1>3. /\ size' \in [Tiers -> {0} \cup Quantities]
      /\ \A t \in Tiers : size'[t] = IF t = w.tier THEN 0 ELSE size[t]
  BY <1>1, Typed
<1>4. \A p \in Purchases : purchase'[p] \notin {"none", "gone"} => size'[TierOf[p]] > 0
  BY <1>2, <1>3, AdminAssumption
<1>5. /\ event' \in EventRow
      /\ event'.status = "gone" => \A t \in Tiers : size'[t] = 0
      /\ event'.status = "draft" => \A p \in Purchases : purchase'[p] = "none"
      /\ \A s \in event'.changedAt : s <= clock
  BY <1>1, <1>2, <1>3, Typed DEF AdminInv
<1> QED BY <1>1, <1>2, <1>3, <1>4, <1>5, IdleRequest, WriteStep

(* updateEvent writes the fields it has decided on.                        *)
LEMMA UpdateWriteStep ==
  ASSUME AdminInv, NEW r \in Requests, UpdateWrite(r)
  PROVE  AdminInv'
<1> PICK w \in RequestRecord : w = request[r]
  BY Typed
<1> PICK stamps : stamps = Coalesce(w.new.changedAt, event.changedAt)
  OBVIOUS
<1>1. /\ w.step = "update" /\ event.status # "gone" /\ w.new \in Changed
      /\ event' = [event EXCEPT !.capacity = w.new.capacity, !.terms = w.new.terms,
                                !.changedAt = stamps]
      /\ UNCHANGED <<size, purchase, clock, notices>> /\ Overtake(r)
      /\ IF Notifies(w.material, stamps)
         THEN request' = [request EXCEPT ![r] = [step |-> "notice", stamps |-> stamps]]
         ELSE request' = [request EXCEPT ![r] = Idle]
  BY RequestParts DEF UpdateWrite, Continue, Answer
<1>2. \A s \in w.new.changedAt : s <= clock
  BY <1>1 DEF AdminInv, CarriesPast
<1>3. stamps \in {{}} \cup {{n} : n \in Stamps} /\ \A s \in stamps : s <= clock
  BY <1>1, <1>2, Typed DEF Coalesce, Changed, EventRow, AdminInv
<1>4. /\ event' \in EventRow /\ event'.status = event.status /\ event'.changedAt = stamps
  <2>1. w.new.capacity \in Caps /\ w.new.terms \in Terms
    BY <1>1 DEF Changed
  <2> QED BY <1>1, <1>3, <2>1, Typed DEF EventRow
<1>5. PICK q \in RequestRecord :
         request' = [request EXCEPT ![r] = q] /\ q.step \in {"idle", "notice"}
  <2>1. PICK q : q = [step |-> "notice", stamps |-> stamps]
    OBVIOUS
  <2>2. q \in RequestRecord /\ q.step = "notice"
    BY <1>3, <2>1 DEF RequestRecord
  <2> QED BY <1>1, <2>1, <2>2, IdleRequest
<1>6. event'.status = "draft" => \A p \in Purchases : purchase'[p] = "none"
  BY <1>1, <1>4 DEF AdminInv
<1> QED BY <1>1, <1>3, <1>4, <1>5, <1>6, Typed, WriteStep

-----------------------------------------------------------------------------

(* The worker takes a change off the queue.                                *)
LEMMA NotifyStep ==
  ASSUME AdminInv, NEW s \in Stamps, HandleNotifyBuyersUpdated(s)
  PROVE  AdminInv'
<1>1. notices' = notices \ {s} /\ UNCHANGED <<event, size, purchase, request, clock, overtaken>>
  BY DEF HandleNotifyBuyersUpdated, rowVars
<1> QED BY <1>1, Typed, OthersStep

(* One purchase moves on, of an event that has been published.             *)
LEMMA PurchaseStep ==
  ASSUME AdminInv, NEW p \in Purchases, NEW status, UNCHANGED Others,
         <<purchase[p], status>> \in {<<"none", "asking">>, <<"asking", "confirmed">>,
                                     <<"asking", "none">>, <<"confirmed", "cancelled">>},
         purchase' = [purchase EXCEPT ![p] = status],
         event.status # "draft", size[TierOf[p]] > 0
  PROVE  AdminInv'
<1>1. UNCHANGED <<event, size, request, clock, notices, overtaken>>
  BY DEF Others, restVars
<1>2. /\ purchase' \in [Purchases -> Statuses]
      /\ \A z \in Purchases : purchase'[z] = IF z = p THEN status ELSE purchase[z]
  BY Typed DEF Statuses
<1>3. \A z \in Purchases : purchase'[z] \notin {"none", "gone"} => size[TierOf[z]] > 0
  BY <1>2, Typed
<1> QED BY <1>1, <1>2, <1>3, Typed, OthersStep

(* A sale finds room in a tier that is there.                              *)
LEMMA BuyerStep ==
  ASSUME AdminInv, NEW p \in Purchases, BuyBegin(p) \/ BuyEnd(p) \/ Refund(p)
  PROVE  AdminInv'
<1>1. CASE BuyBegin(p)
  <2>1. TierOf[p] \in Tiers /\ size[TierOf[p]] \in Int
    <3>1. {0} \cup Quantities \subseteq Int /\ TierOf \in [Purchases -> Tiers]
      BY AdminAssumption
    <3>2. size \in [Tiers -> {0} \cup Quantities]
      BY Typed
    <3> QED BY <3>1, <3>2
  <2>2. SoldOf(TierOf[p]) \in Nat
    <3>1. {z \in Confirmed : TierOf[z] = TierOf[p]} \subseteq Purchases
      BY DEF Confirmed
    <3>2. IsFiniteSet({z \in Confirmed : TierOf[z] = TierOf[p]})
      BY <3>1, FS_Subset, AdminAssumption
    <3> QED BY <3>2, FS_CardinalityType DEF SoldOf
  <2>3. size[TierOf[p]] > 0
    BY <1>1, <2>1, <2>2 DEF BuyBegin
  <2> QED BY <1>1, <2>3, PurchaseStep DEF BuyBegin
<1>2. CASE BuyEnd(p)
  <2>1. event.status # "draft" /\ size[TierOf[p]] > 0
    BY <1>2, Typed DEF BuyEnd, AdminInv
  <2> QED BY <1>2, <2>1, PurchaseStep DEF BuyEnd
<1>3. CASE Refund(p)
  <2>1. size[TierOf[p]] > 0
    BY <1>3, Typed DEF Refund
  <2> QED BY <1>3, <2>1, PurchaseStep DEF Refund
<1> QED BY <1>1, <1>2, <1>3

(* The periodic job ends an event that is on sale.                         *)
LEMMA EndExpiredStep ==
  ASSUME AdminInv, EndExpired
  PROVE  AdminInv'
<1>1. /\ event.status = "published" /\ event' = [event EXCEPT !.status = "ended"]
      /\ UNCHANGED <<size, purchase, request, clock, notices, overtaken>>
  BY DEF EndExpired, restVars
<1>2. /\ event' \in EventRow /\ event'.status = "ended"
      /\ event'.changedAt = event.changedAt /\ event'.terms = event.terms
  BY <1>1, Typed DEF EventRow
<1> QED BY <1>1, <1>2, Typed, OthersStep

-----------------------------------------------------------------------------

(* A draft without tiers, and nobody at work on it.                        *)
LEMMA InitInv == Init => AdminInv
<1> SUFFICES ASSUME Init PROVE AdminInv
  OBVIOUS
<1>1. PICK cap \in Caps, terms \in Terms :
         event = [status |-> "draft", capacity |-> cap, terms |-> terms, changedAt |-> {}]
  BY DEF Init
<1>2. event \in EventRow /\ event.status = "draft" /\ event.changedAt = {}
  BY <1>1 DEF EventRow
<1>3. /\ \A t \in Tiers : size[t] = 0
      /\ \A p \in Purchases : purchase[p] = "none"
      /\ \A r \in Requests : request[r] = Idle
      /\ notices = {} /\ overtaken = {}
  BY DEF Init
<1>4. TypeOK
  <2>1. 0 \in 0 .. MaxStamp
    BY AdminAssumption
  <2>2. /\ size \in [Tiers -> {0} \cup Quantities]
        /\ purchase \in [Purchases -> Statuses]
        /\ request \in [Requests -> RequestRecord] /\ clock = 0
    BY IdleRequest DEF Init, Statuses
  <2> QED BY <1>2, <1>3, <2>1, <2>2 DEF TypeOK, Statuses
<1>5. \A r \in Requests : CarriesPast(request[r]) /\ ReadStillHolds(request[r])
  BY <1>3, IdleRequest
<1> QED BY <1>2, <1>3, <1>4, <1>5 DEF AdminInv

(* Every step keeps AdminInv.                                              *)
LEMMA NextInv == AdminInv /\ [Next]_vars => AdminInv'
<1> SUFFICES ASSUME AdminInv, [Next]_vars PROVE AdminInv'
  OBVIOUS
<1>1. ASSUME NEW r \in Requests, Publish(r) PROVE AdminInv'
  BY <1>1, BeginsStep, PublishCountStep, PublishWriteStep DEF Publish
<1>2. ASSUME NEW r \in Requests, Cancel(r) PROVE AdminInv'
  BY <1>2, BeginsStep, CancelWriteStep, ListBuyersStep, VoidPurchasesStep, EndsStep DEF Cancel
<1>3. ASSUME NEW r \in Requests, EditTiers(r) PROVE AdminInv'
  BY <1>3, BeginsStep, TierInsertStep, TierDeleteStep DEF EditTiers
<1>4. ASSUME NEW r \in Requests, Update(r) PROVE AdminInv'
  BY <1>4, BeginsStep, UpdatePayloadStep, UpdateWriteStep, EnqueueUpdatedStep DEF Update
<1>5. ASSUME NEW r \in Requests, DeleteBegin(r) \/ DeleteWrite(r) \/ RequestFail(r) PROVE AdminInv'
  BY <1>5, BeginsStep, DeleteWriteStep, EndsStep
<1>6. ASSUME NEW p \in Purchases, BuyBegin(p) \/ BuyEnd(p) \/ Refund(p) PROVE AdminInv'
  BY <1>6, BuyerStep
<1>7. ASSUME NEW s \in Stamps, HandleNotifyBuyersUpdated(s) PROVE AdminInv'
  BY <1>7, NotifyStep
<1>8. CASE EndExpired
  BY <1>8, EndExpiredStep
<1>9. CASE UNCHANGED vars
  <2>1. UNCHANGED <<event, size, purchase, request, clock, notices, overtaken>>
    BY <1>9 DEF vars, rowVars, restVars
  <2> QED BY <2>1, Typed, OthersStep
<1> QED BY <1>1, <1>2, <1>3, <1>4, <1>5, <1>6, <1>7, <1>8, <1>9 DEF Next

(* AdminInv holds always.                                                  *)
THEOREM AdminInvariant == Spec => []AdminInv
BY InitInv, NextInv, PTL DEF Spec

(* Every row has its type, and a row that is gone has nothing below it.    *)
THEOREM TypeCorrect == Spec => []TypeOK
<1>1. AdminInv => TypeOK
  BY DEF AdminInv
<1> QED BY <1>1, AdminInvariant, PTL

-----------------------------------------------------------------------------

(* What a step may do to the rows, as the action properties state it: the  *)
(* first part always, the others while no overtaken request moves.         *)
RowsMove ==
    /\ event'.status \notin {event.status, "gone"} =>
           <<event.status, event'.status>> \in StatusArrows
    /\ Timely =>
           /\ OnSaleHasTiers => OnSaleHasTiers'
           /\ \A p \in Purchases : Bought(purchase[p]) => Bought(purchase'[p])
           /\ event.status = "published" => \A t \in Tiers : size[t] > 0 <=> size'[t] > 0
           /\ event.status = "published" /\ event'.terms # event.terms =>
                  event'.changedAt # event.changedAt
           /\ \A s \in event.changedAt : \E n \in event'.changedAt : n >= s

(* What a request that moves in such a step has read still holds.          *)
LEMMA TimelyReads ==
  ASSUME AdminInv, Timely, NEW r \in Requests, request'[r] # request[r]
  PROVE  ReadStillHolds(request[r])
BY DEF AdminInv, Timely

(* A request that ends has moved.                                          *)
LEMMA Answered ==
  ASSUME AdminInv, NEW r \in Requests, Answer(r), request[r].step # "idle"
  PROVE  request'[r] # request[r]
<1>1. request'[r] = Idle
  BY Typed DEF Answer, Continue
<1> QED BY <1>1, IdleRequest

(* A stamp is no later than itself.                                        *)
LEMMA StampStays ==
  ASSUME AdminInv, event'.changedAt = event.changedAt
  PROVE  \A s \in event.changedAt : \E n \in event'.changedAt : n >= s
<1>1. \A s \in event.changedAt : s \in Nat
  BY Typed DEF EventRow, Stamps
<1> QED BY <1>1

(* A step that leaves the event alone, and the tiers unless it is a draft. *)
LEMMA RowsBelowMove ==
  ASSUME AdminInv, event' = event,
         Timely => /\ \A p \in Purchases : Bought(purchase[p]) => Bought(purchase'[p])
                   /\ event.status = "published" => size' = size
  PROVE  RowsMove
BY StampStays DEF RowsMove, OnSaleHasTiers

(* A step that writes the event's status only.                             *)
LEMMA StatusMoves ==
  ASSUME AdminInv, NEW status, event' = [event EXCEPT !.status = status],
         <<event.status, status>> \in StatusArrows, UNCHANGED <<size, purchase>>,
         Timely /\ status = "published" => \E t \in Tiers : size[t] > 0
  PROVE  RowsMove
<1>1. /\ event'.status = status /\ event'.changedAt = event.changedAt
      /\ event'.terms = event.terms
  BY Typed DEF EventRow
<1> QED BY <1>1, StampStays DEF RowsMove, OnSaleHasTiers

(* publishEvent has counted the tiers.                                     *)
LEMMA PublishMoves ==
  ASSUME AdminInv, NEW r \in Requests, PublishWrite(r), ~UNCHANGED rowVars
  PROVE  RowsMove
<1>1. /\ request[r].step = "publish" /\ event.status = "draft" /\ Answer(r)
      /\ event' = [event EXCEPT !.status = "published"] /\ UNCHANGED <<size, purchase>>
  BY DEF PublishWrite, Conflict, MayPublish
<1>2. Timely => \E t \in Tiers : size[t] > 0
  BY <1>1, Answered, TimelyReads DEF ReadStillHolds
<1> QED BY <1>1, <1>2, StatusMoves DEF StatusArrows

(* deleteEvent and deleteTier find a draft, of which nothing has been sold.*)
LEMMA DeletesMove ==
  ASSUME AdminInv, NEW r \in Requests, DeleteWrite(r) \/ TierDelete(r) \/ TierInsert(r)
  PROVE  RowsMove
<1>1. /\ Answer(r) /\ request[r].step \in {"delete", "delete_tier", "insert_tier"}
  BY DEF DeleteWrite, TierDelete, TierInsert
<1>2. Timely => event.status = "draft" /\ \A p \in Purchases : ~Bought(purchase[p])
  <2>1. ASSUME Timely PROVE event.status = "draft"
    BY <1>1, <2>1, Answered, TimelyReads DEF ReadStillHolds
  <2> QED BY <2>1 DEF AdminInv, Bought
<1>3. CASE DeleteWrite(r)
  <2>1. /\ event'.status = "gone" /\ event'.changedAt = event.changedAt
        /\ event'.terms = event.terms
    BY <1>3, Typed DEF DeleteWrite, EventRow
  <2> QED BY <1>2, <2>1, StampStays DEF RowsMove, OnSaleHasTiers
<1>4. CASE TierDelete(r) \/ TierInsert(r)
  <2>1. event' = event
    BY <1>4 DEF TierDelete, TierInsert
  <2> QED BY <1>2, <2>1, RowsBelowMove
<1> QED BY <1>3, <1>4

(* updateEvent keeps the status, and stamps what it changes.               *)
LEMMA UpdateMoves ==
  ASSUME AdminInv, NEW r \in Requests, UpdateWrite(r)
  PROVE  RowsMove
<1> PICK w \in RequestRecord : w = request[r]
  BY Typed
<1> PICK stamps : stamps = Coalesce(w.new.changedAt, event.changedAt)
  OBVIOUS
<1>1. w.step = "update" /\ w.new \in Changed /\ UNCHANGED <<size, purchase>>
  BY RequestParts DEF UpdateWrite
<1>2. /\ event'.status = event.status /\ event'.changedAt = stamps
      /\ event'.terms = w.new.terms
  BY Typed DEF UpdateWrite, EventRow
<1>3. /\ \A s \in event.changedAt : s \in Nat
      /\ w.new.changedAt = {} \/ \E n \in Stamps : w.new.changedAt = {n}
  BY <1>1, Typed DEF EventRow, Stamps, Changed
<1>4. Timely =>
        /\ event.status = "published" /\ w.new.terms # event.terms =>
              w.new.changedAt \notin {{}, event.changedAt}
        /\ \A s \in event.changedAt, n \in w.new.changedAt : n >= s
  <2>1. request'[r].step \in {"idle", "notice"}
    BY Typed, IdleRequest DEF UpdateWrite, Continue, Answer
  <2>2. ASSUME Timely PROVE ReadStillHolds(w)
    BY <1>1, <2>1, <2>2, TimelyReads
  <2> QED BY <1>1, <2>2 DEF ReadStillHolds
<1>5. ASSUME Timely, event.status = "published", event'.terms # event.terms
      PROVE  event'.changedAt # event.changedAt
  BY <1>2, <1>4, <1>5 DEF Coalesce
<1>6. ASSUME Timely, NEW s \in event.changedAt
      PROVE  \E n \in event'.changedAt : n >= s
  <2>1. CASE w.new.changedAt = {}
    BY <1>2, <1>3, <1>6, <2>1 DEF Coalesce
  <2>2. ASSUME NEW n \in Stamps, w.new.changedAt = {n} PROVE \E m \in event'.changedAt : m >= s
    BY <1>2, <1>4, <1>6, <2>2 DEF Coalesce
  <2> QED BY <1>3, <2>1, <2>2
<1> QED BY <1>1, <1>2, <1>5, <1>6 DEF RowsMove, OnSaleHasTiers

(* Buyers only move between asking, holding a ticket and having held it.   *)
LEMMA BuyersMove ==
  ASSUME AdminInv, NEW p \in Purchases, BuyBegin(p) \/ BuyEnd(p) \/ Refund(p)
  PROVE  RowsMove
<1>1. event' = event /\ size' = size
  BY DEF BuyBegin, BuyEnd, Refund, Others
<1>2. \A z \in Purchases : Bought(purchase[z]) => Bought(purchase'[z])
  BY Typed DEF BuyBegin, BuyEnd, Refund, Bought
<1> QED BY <1>1, <1>2, RowsBelowMove

(* Every step moves the rows so.                                           *)
LEMMA NextMoves == AdminInv /\ [Next]_vars => RowsMove
<1> SUFFICES ASSUME AdminInv, [Next]_vars PROVE RowsMove
  OBVIOUS
<1> USE DEF rowVars
<1>1. ASSUME UNCHANGED rowVars PROVE RowsMove
  BY <1>1, RowsBelowMove
<1>2. ASSUME NEW r \in Requests, Publish(r) PROVE RowsMove
  <2>1. CASE PublishWrite(r)
    BY <1>1, <2>1, PublishMoves
  <2> QED BY <1>1, <1>2, <2>1 DEF Publish, PublishBegin, PublishCount, Begin
<1>3. ASSUME NEW r \in Requests, Cancel(r) PROVE RowsMove
  <2>1. CASE CancelWrite(r)
    BY <1>1, <2>1, StatusMoves DEF CancelWrite, Conflict, MayCancelEvent, StatusArrows
  <2>2. CASE VoidPurchases(r)
    <3>1. \A p \in Purchases : Bought(purchase[p]) => Bought(purchase'[p])
      BY <2>2, Typed DEF VoidPurchases, Bought, Confirmed
    <3> QED BY <2>2, <3>1, RowsBelowMove DEF VoidPurchases
  <2> QED BY <1>1, <1>3, <2>1, <2>2
          DEF Cancel, CancelBegin, Begin, ListBuyers, EnqueueCancelled
<1>4. ASSUME NEW r \in Requests, EditTiers(r) PROVE RowsMove
  BY <1>1, <1>4, DeletesMove DEF EditTiers, TierBegin, TierDeleteBegin, Begin
<1>5. ASSUME NEW r \in Requests, Update(r) PROVE RowsMove
  BY <1>1, <1>5, UpdateMoves DEF Update, UpdateBegin, Begin, UpdatePayload, UpdateDecide, EnqueueUpdated
<1>6. ASSUME NEW r \in Requests, DeleteBegin(r) \/ DeleteWrite(r) \/ RequestFail(r) PROVE RowsMove
  BY <1>1, <1>6, DeletesMove DEF DeleteBegin, Begin, RequestFail
<1>7. ASSUME NEW s \in Stamps, HandleNotifyBuyersUpdated(s) PROVE RowsMove
  BY <1>1, <1>7 DEF HandleNotifyBuyersUpdated
<1>8. CASE EndExpired
  BY <1>8, StatusMoves DEF EndExpired, StatusArrows
<1>9. CASE UNCHANGED vars
  BY <1>1, <1>9 DEF vars
<1> QED BY <1>2, <1>3, <1>4, <1>5, <1>6, <1>7, <1>8, <1>9, BuyersMove DEF Next

(* No late write takes an event back from being cancelled or over.         *)
THEOREM LifeCycleIsKept == Spec => AdminLifeCycle
<1>1. AdminInv /\ [Next]_vars =>
         [event'.status \notin {event.status, "gone"} =>
             <<event.status, event'.status>> \in StatusArrows]_vars
  BY NextMoves DEF RowsMove
<1> QED BY <1>1, AdminInvariant, PTL DEF Spec, AdminLifeCycle

(* No timely request leaves an event on sale without a tier to sell.       *)
THEOREM OnSaleMeansForSale == Spec => PublishedHasTiers
<1>1. AdminInv /\ [Next]_vars => [Timely /\ OnSaleHasTiers => OnSaleHasTiers']_vars
  BY NextMoves DEF RowsMove
<1> QED BY <1>1, AdminInvariant, PTL DEF Spec, PublishedHasTiers

(* No timely request takes a purchase along with a tier or an event.       *)
THEOREM SoldIsNotDeleted == Spec => PurchasesSurvive
<1>1. AdminInv /\ [Next]_vars =>
         [Timely => \A p \in Purchases : Bought(purchase[p]) => Bought(purchase'[p])]_vars
  BY NextMoves DEF RowsMove
<1> QED BY <1>1, AdminInvariant, PTL DEF Spec, PurchasesSurvive

(* No timely request adds to the tiers of an event on sale or deletes them.*)
THEOREM TiersStayFrozen == Spec => TiersAreFrozen
<1>1. AdminInv /\ [Next]_vars =>
         [Timely /\ event.status = "published" =>
             \A t \in Tiers : size[t] > 0 <=> size'[t] > 0]_vars
  BY NextMoves DEF RowsMove
<1> QED BY <1>1, AdminInvariant, PTL DEF Spec, TiersAreFrozen

(* Changed terms come with a new stamp, unless the request was overtaken.  *)
THEOREM GraceOpensWithChange == Spec => ChangesAreStamped
<1>1. AdminInv /\ [Next]_vars =>
         [Timely /\ event.status = "published" /\ event'.terms # event.terms =>
             event'.changedAt # event.changedAt]_vars
  BY NextMoves DEF RowsMove
<1> QED BY <1>1, AdminInvariant, PTL DEF Spec, ChangesAreStamped

(* No timely request loses the stamp of the last change or sets it back.   *)
THEOREM StampsNeverGoBack == Spec => StampsAdvance
<1>1. AdminInv /\ [Next]_vars =>
         [Timely => \A s \in event.changedAt : \E n \in event'.changedAt : n >= s]_vars
  BY NextMoves DEF RowsMove
<1> QED BY <1>1, AdminInvariant, PTL DEF Spec, StampsAdvance

-----------------------------------------------------------------------------

(* The inventory is a sum: a step that leaves the tiers alone keeps it, one *)
(* that takes from them does not raise it, and a new tier counts in full.  *)
LEMMA InventoryFacts ==
  ASSUME AdminInv
  PROVE  /\ Inventory \in Int
         /\ size' = size => Inventory' = Inventory
         /\ size' \in [Tiers -> Nat] =>
               /\ (\A t \in Tiers : size'[t] <= size[t]) => Inventory' \in Int /\ Inventory' <= Inventory
               /\ \A t \in Tiers : (\A s \in Tiers : s # t => size'[s] = size[s]) =>
                     Inventory' = Inventory - size[t] + size'[t]
<1>1. size \in [Tiers -> Int]
  <2>1. {0} \cup Quantities \subseteq Nat
    BY AdminAssumption
  <2> QED BY <2>1, Typed
<1>2. Inventory = SumOf(size, Tiers) /\ Inventory' = SumOf(size', Tiers)
  BY DEF Inventory, SumOf, MapThenSumSet, MapThenFoldSet
<1>3. \A f \in [Tiers -> Int] : SumOf(f, Tiers) \in Int
  BY AdminAssumption, SumIsLast, SumType
<1>4. ASSUME size' \in [Tiers -> Nat]
      PROVE  /\ (\A t \in Tiers : size'[t] <= size[t]) => Inventory' \in Int /\ Inventory' <= Inventory
             /\ \A t \in Tiers : (\A s \in Tiers : s # t => size'[s] = size[s]) =>
                   Inventory' = Inventory - size[t] + size'[t]
  <2>1. PICK f \in [Tiers -> Int] : f = size'
    BY <1>4
  <2>2. (\A t \in Tiers : f[t] <= size[t]) => SumOf(f, Tiers) <= SumOf(size, Tiers)
    BY <1>1, AdminAssumption, SumIsMonotone
  <2>3. \A t \in Tiers : (\A s \in Tiers : s # t => f[s] = size[s]) =>
           SumOf(f, Tiers) = SumOf(size, Tiers) - size[t] + f[t]
    BY <1>1, AdminAssumption, SumOfChange
  <2> QED BY <1>2, <1>3, <2>1, <2>2, <2>3
<1> QED BY <1>1, <1>2, <1>3, <1>4

(* A step that moves a request on, elsewhere than to createTier's insert,  *)
(* and leaves the event and its tiers alone or overtakes the others.       *)
LEMMA RoomStays ==
  ASSUME AdminInv, RoomHeld, NEW r \in Requests, NEW q, Continue(r, q), q.step # "insert_tier",
         Overtake(r) \/ UNCHANGED <<event, size, overtaken>>
  PROVE  RoomHeld'
<1> SUFFICES ASSUME NEW s \in Requests, s \notin overtaken', request'[s].step = "insert_tier"
             PROVE  /\ size'[request'[s].tier] = 0
                    /\ Fits(event'.capacity, Inventory' + request'[s].quantity)
  BY DEF RoomHeld, Fits
<1>1. s # r /\ request'[s] = request[s]
  BY Typed DEF Continue
<1>2. CASE Overtake(r)
  BY <1>1, <1>2, IdleRequest DEF Overtake
<1>3. CASE UNCHANGED <<event, size, overtaken>>
  <2>1. Inventory' = Inventory
    BY <1>3, InventoryFacts
  <2> QED BY <1>1, <1>3, <2>1 DEF RoomHeld
<1> QED BY <1>2, <1>3

(* A step that moves no request, nor the tiers and the capacity.           *)
LEMMA RoomUntouched ==
  ASSUME AdminInv, RoomHeld, UNCHANGED <<request, size, overtaken>>,
         event'.capacity = event.capacity
  PROVE  RoomHeld'
<1>1. Inventory' = Inventory
  BY InventoryFacts
<1> QED BY <1>1 DEF RoomHeld, Fits

(* requireEventOrganizer.                                                  *)
LEMMA RoomBegins ==
  ASSUME AdminInv, RoomHeld, NEW r \in Requests, NEW statuses, NEW q, Begin(r, statuses, q),
         q.step = "insert_tier" => size[q.tier] = 0 /\ Fits(event.capacity, Inventory + q.quantity)
  PROVE  RoomHeld'
<1>1. /\ request' = [request EXCEPT ![r] = q] /\ event' = event /\ size' = size
      /\ overtaken' = overtaken \ {r}
  BY DEF Begin, Continue, rowVars
<1> SUFFICES ASSUME NEW s \in Requests, s \notin overtaken', request'[s].step = "insert_tier"
             PROVE  /\ size[request'[s].tier] = 0
                    /\ Fits(event.capacity, Inventory + request'[s].quantity)
  BY <1>1, InventoryFacts DEF RoomHeld, Fits
<1>2. CASE s = r
  BY <1>1, <1>2, Typed
<1>3. CASE s # r
  BY <1>1, <1>3, Typed DEF RoomHeld
<1> QED BY <1>2, <1>3

(* What createTier has found is there until it inserts the tier.           *)
LEMMA NextRoom == AdminInv /\ RoomHeld /\ [Next]_vars => RoomHeld'
<1> SUFFICES ASSUME AdminInv, RoomHeld, [Next]_vars PROVE RoomHeld'
  OBVIOUS
<1> USE DEF rowVars, restVars
<1>1. ASSUME NEW r \in Requests, Answer(r), Overtake(r) \/ UNCHANGED <<event, size, overtaken>>
      PROVE  RoomHeld'
  BY <1>1, IdleRequest, RoomStays DEF Answer
<1>3. ASSUME NEW r \in Requests, NEW statuses, NEW q, Begin(r, statuses, q), q.step # "insert_tier"
      PROVE  RoomHeld'
  BY <1>3, RoomBegins
<1>4. ASSUME NEW r \in Requests, Publish(r) PROVE RoomHeld'
  <2>1. CASE PublishBegin(r)
    BY <1>3, <2>1 DEF PublishBegin
  <2>2. CASE PublishCount(r)
    BY <1>1, <2>2, RoomStays DEF PublishCount
  <2>3. CASE PublishWrite(r)
    BY <1>1, <2>3 DEF PublishWrite, Conflict
  <2> QED BY <1>4, <2>1, <2>2, <2>3 DEF Publish
<1>5. ASSUME NEW r \in Requests, Cancel(r) PROVE RoomHeld'
  <2>1. CASE CancelBegin(r)
    BY <1>3, <2>1 DEF CancelBegin
  <2>2. CASE CancelWrite(r)
    BY <1>1, <2>2, RoomStays DEF CancelWrite, Conflict
  <2>3. CASE ListBuyers(r)
    BY <2>3, RoomStays DEF ListBuyers
  <2>4. CASE VoidPurchases(r)
    <3>1. PICK q : q = [request[r] EXCEPT !.step = "task"]
      OBVIOUS
    <3>2. request[r] \in RequestRecord /\ request[r].step = "void"
      BY <2>4, Typed DEF VoidPurchases
    <3>3. q.step = "task"
      BY <3>1, <3>2 DEF RequestRecord
    <3> QED BY <2>4, <3>1, <3>3, RoomStays DEF VoidPurchases
  <2>5. CASE EnqueueCancelled(r)
    BY <1>1, <2>5 DEF EnqueueCancelled
  <2> QED BY <1>5, <2>1, <2>2, <2>3, <2>4, <2>5 DEF Cancel
<1>6. ASSUME NEW r \in Requests, EditTiers(r) PROVE RoomHeld'
  <2>1. ASSUME NEW t \in Tiers, NEW n \in Quantities, TierBegin(r, t, n) PROVE RoomHeld'
    <3>1. PICK q : q = [step |-> "insert_tier", tier |-> t, quantity |-> n]
      OBVIOUS
    <3>2. size[q.tier] = 0 /\ Fits(event.capacity, Inventory + q.quantity)
      BY <2>1, <3>1 DEF TierBegin, RoomFor
    <3> QED BY <2>1, <3>1, <3>2, RoomBegins DEF TierBegin
  <2>2. CASE TierInsert(r) \/ TierDelete(r)
    BY <1>1, <2>2 DEF TierInsert, TierDelete
  <2>3. ASSUME NEW t \in Tiers, TierDeleteBegin(r, t) PROVE RoomHeld'
    BY <1>3, <2>3 DEF TierDeleteBegin
  <2> QED BY <1>6, <2>1, <2>2, <2>3 DEF EditTiers
<1>7. ASSUME NEW r \in Requests, Update(r) PROVE RoomHeld'
  <2>1. CASE UpdateBegin(r)
    BY <1>3, <2>1 DEF UpdateBegin
  <2>2. CASE UpdatePayload(r)
    <3>1. UNCHANGED <<event, size, overtaken>>
      BY <2>2 DEF UpdatePayload, UpdateDecide
    <3>2. PICK cap, terms, material, confirm : UpdateDecide(r, cap, terms, material, confirm)
      BY <2>2 DEF UpdatePayload
    <3>3. CASE Answer(r)
      BY <1>1, <3>1, <3>3
    <3>4. CASE ~Answer(r)
      <4>1. PICK new : Continue(r, [step |-> "update", new |-> new, material |-> material])
        BY <3>2, <3>4, Zenon DEF UpdateDecide
      <4> QED BY <3>1, <4>1, RoomStays
    <3> QED BY <3>3, <3>4
  <2>3. CASE UpdateWrite(r)
    <3>1. Overtake(r)
      BY <2>3 DEF UpdateWrite
    <3>2. Answer(r) \/ \E stamps : Continue(r, [step |-> "notice", stamps |-> stamps])
      BY <2>3, Zenon DEF UpdateWrite
    <3> QED BY <1>1, <3>1, <3>2, RoomStays
  <2>4. CASE EnqueueUpdated(r)
    BY <1>1, <2>4 DEF EnqueueUpdated
  <2> QED BY <1>7, <2>1, <2>2, <2>3, <2>4 DEF Update
<1>8. ASSUME NEW r \in Requests, DeleteBegin(r) \/ DeleteWrite(r) \/ RequestFail(r) PROVE RoomHeld'
  BY <1>1, <1>3, <1>8 DEF DeleteBegin, DeleteWrite, RequestFail
<1>9. ASSUME NEW p \in Purchases, BuyBegin(p) \/ BuyEnd(p) \/ Refund(p) PROVE RoomHeld'
  BY <1>9, RoomUntouched DEF BuyBegin, BuyEnd, Refund, Others
<1>10. ASSUME NEW s \in Stamps, HandleNotifyBuyersUpdated(s) PROVE RoomHeld'
  BY <1>10, RoomUntouched DEF HandleNotifyBuyersUpdated
<1>11. CASE EndExpired
  <2>1. event'.capacity = event.capacity
    BY <1>11, Typed DEF EndExpired, EventRow
  <2> QED BY <1>11, <2>1, RoomUntouched DEF EndExpired
<1>12. CASE UNCHANGED vars
  BY <1>12, RoomUntouched DEF vars
<1> QED BY <1>4, <1>5, <1>6, <1>7, <1>8, <1>9, <1>10, <1>11, <1>12 DEF Next

(* The steps that change the tiers keep within the capacity.               *)
LEMMA NextFits ==
  ASSUME AdminInv, RoomHeld, [Next]_vars, Timely, event'.capacity = event.capacity,
         Fits(event.capacity, Inventory)
  PROVE  Fits(event.capacity, Inventory')
<1> USE DEF rowVars
<1>1. ASSUME UNCHANGED size PROVE Fits(event.capacity, Inventory')
  BY <1>1, InventoryFacts
<1>2. \A limit \in event.capacity : limit \in Int
  BY Typed, AdminAssumption DEF EventRow, Caps
<1>3. ASSUME size' \in [Tiers -> Nat], \A t \in Tiers : size'[t] <= size[t]
      PROVE  Fits(event.capacity, Inventory')
  BY <1>2, <1>3, InventoryFacts DEF Fits
<1>4. \A t \in Tiers : size[t] \in Nat
  <2>1. {0} \cup Quantities \subseteq Nat
    BY AdminAssumption
  <2> QED BY <2>1, Typed
<1>5. ASSUME NEW r \in Requests, TierInsert(r) PROVE Fits(event.capacity, Inventory')
  <2>1. PICK q \in RequestRecord : q = request[r]
    BY Typed
  <2>2. q.step = "insert_tier" /\ q.tier \in Tiers /\ q.quantity \in Nat
    BY <1>5, <2>1, RequestParts, AdminAssumption DEF TierInsert
  <2>3. size[q.tier] = 0 /\ Fits(event.capacity, Inventory + q.quantity)
    <3>1. request'[r] # request[r]
      BY <1>5, Answered DEF TierInsert
    <3> QED BY <2>1, <2>2, <3>1 DEF RoomHeld, Timely
  <2>4. CASE size' = [size EXCEPT ![q.tier] = q.quantity]
    <3>1. /\ size' \in [Tiers -> Nat] /\ size'[q.tier] = q.quantity
          /\ \A s \in Tiers : s # q.tier => size'[s] = size[s]
      BY <1>4, <2>2, <2>4, Typed
    <3>2. Inventory' = Inventory + q.quantity
      BY <2>2, <2>3, <3>1, InventoryFacts
    <3> QED BY <2>3, <3>2
  <2> QED BY <1>1, <1>5, <2>1, <2>4 DEF TierInsert
<1>6. ASSUME NEW r \in Requests, TierDelete(r) \/ DeleteWrite(r) PROVE Fits(event.capacity, Inventory')
  <2>1. size' \in [Tiers -> Nat] /\ \A t \in Tiers : size'[t] = 0 \/ size'[t] = size[t]
    BY <1>4, <1>6, Typed DEF TierDelete, DeleteWrite
  <2>2. \A t \in Tiers : size'[t] <= size[t]
    BY <1>4, <2>1
  <2> QED BY <1>3, <2>1, <2>2
<1>7. ASSUME NEW r \in Requests, Publish(r) \/ Cancel(r) PROVE UNCHANGED size
  BY <1>7 DEF Publish, PublishBegin, PublishCount, PublishWrite, Conflict, Begin, Cancel, CancelBegin,
              CancelWrite, ListBuyers, VoidPurchases, EnqueueCancelled
<1>8. ASSUME NEW r \in Requests, EditTiers(r), ~TierInsert(r), ~TierDelete(r) PROVE UNCHANGED size
  BY <1>8 DEF EditTiers, TierBegin, TierDeleteBegin, Begin
<1>9. ASSUME NEW r \in Requests, Update(r) \/ DeleteBegin(r) \/ RequestFail(r) PROVE UNCHANGED size
  BY <1>9 DEF Update, UpdateBegin, Begin, UpdatePayload, UpdateDecide, UpdateWrite, EnqueueUpdated,
              DeleteBegin, RequestFail
<1>10. ASSUME NEW p \in Purchases, BuyBegin(p) \/ BuyEnd(p) \/ Refund(p) PROVE UNCHANGED size
  BY <1>10 DEF BuyBegin, BuyEnd, Refund, Others
<1>11. ASSUME NEW s \in Stamps, HandleNotifyBuyersUpdated(s) PROVE UNCHANGED size
  BY <1>11 DEF HandleNotifyBuyersUpdated
<1>12. EndExpired \/ UNCHANGED vars => UNCHANGED size
  BY DEF EndExpired, vars
<1>13. \/ UNCHANGED size
       \/ \E r \in Requests : TierInsert(r) \/ TierDelete(r) \/ DeleteWrite(r)
  BY <1>7, <1>8, <1>9, <1>10, <1>11, <1>12 DEF Next, EditTiers
<1> QED BY <1>1, <1>5, <1>6, <1>13

(* No timely createTier or deleteTier overfills the event.                 *)
THEOREM TiersFitTheCapacity == Spec => TiersRespectCapacity
<1>1. Init => RoomHeld
  BY IdleRequest DEF Init, RoomHeld
<1>2. AdminInv /\ RoomHeld /\ [Next]_vars => RoomHeld'
  BY NextRoom
<1>3. AdminInv /\ RoomHeld /\ [Next]_vars =>
         [/\ Timely
          /\ event'.capacity = event.capacity
          /\ Fits(event.capacity, Inventory)
          => Fits(event.capacity, Inventory')]_vars
  BY NextFits
<1> QED BY <1>1, <1>2, <1>3, AdminInvariant, PTL DEF Spec, TiersRespectCapacity

=============================================================================
