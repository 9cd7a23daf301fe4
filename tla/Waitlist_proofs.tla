--------------------------- MODULE Waitlist_proofs ---------------------------
(***************************************************************************)
(* QueueInv is an inductive invariant of Waitlist, and the rows, tasks and *)
(* requests of each tier implement one WaitingLine.                        *)
(*                                                                         *)
(* Actions are grouped by what they write of the queue: RestStep (nothing),*)
(* RequestStep (one call of joinWaitlist), TaskStep (one notify task) and  *)
(* EntryStep (rows that leave, lapse or are offered a place).  JoinCommit, *)
(* which makes a row visible, is a lemma of its own.                       *)
(***************************************************************************)
EXTENDS Waitlist, InductionLemmas, SequenceTheorems

(* The part of TypeOK that is not about the queue itself.                  *)
RestTyped ==
    /\ stock \in [Tiers -> Nat]
    /\ standing \subseteq Purchases
    /\ closed \subseteq Purchases
    /\ event \in {"open", "cancelled", "ended"}
    /\ organizer \in {"idle", "purchases", "select", "delete", "done"}
    /\ doomed \subseteq Stamps
    /\ owed \in [Tiers -> Nat]
    /\ mailed \subseteq Stamps
    /\ lost \in BOOLEAN

(* Every variable the queue is made of.                                    *)
queue == <<entry, lastStamp, arrived, request, task>>

(* ORDER BY created_at ASC: the first row that a query returns is the      *)
(* oldest.                                                                 *)
LEMMA NextIsOldest ==
  ASSUME NEW rows \in SUBSET Stamps, rows # {}
  PROVE  NextInLine(rows) \in rows /\ \A n \in rows : NextInLine(rows) <= n
<1>1. rows \in SUBSET Nat
  BY DEF Stamps
<1>2. \E n \in rows : \A m \in rows : n <= m
  BY <1>1, LeastOf
<1> QED BY <1>2 DEF NextInLine

(* What does not write the queue keeps QueueInv.                           *)
LEMMA RestStep ==
  ASSUME QueueInv, UNCHANGED queue, RestTyped'
  PROVE  QueueInv'
<1> USE DEF QueueInv, queue
<1>1. TypeOK'
  BY DEF TypeOK, RestTyped
<1>2. StampsAreUnique'
  BY DEF StampsAreUnique
<1>3. OffersAreDistinct'
  BY DEF OffersAreDistinct, StillWaiting
<1>4. NobodyPassedOver'
  BY DEF NobodyPassedOver, StillWaiting
<1>5. ArrivalsAreUnique'
  BY DEF ArrivalsAreUnique, Arrived
<1>6. SeenInOrder'
  BY DEF SeenInOrder, InOrder, Arrived, StillWaiting
<1> QED BY <1>1, <1>2, <1>3, <1>4, <1>5, <1>6

(* A step of joinWaitlist before its row is visible: an INSERT takes the   *)
(* next stamp, for a slot that has no row and gets none from anybody else. *)
LEMMA RequestStep ==
  ASSUME QueueInv, NEW r \in Requests, NEW q \in RequestRecord, request' = [request EXCEPT ![r] = q],
         UNCHANGED <<entry, arrived, task>>, RestTyped',
         lastStamp' \in lastStamp .. MaxStamp,
         q.step # "idle" => q.slot \in Slots,
         q.step = "commit" =>
            /\ q.stamp = lastStamp + 1 /\ q.stamp = lastStamp'
            /\ entry[q.slot].status = "none" /\ ~Inserting(q.slot)
  PROVE  QueueInv'
<1> USE DEF QueueInv
<1>1. /\ request' \in [Requests -> RequestRecord] /\ request'[r] = q
      /\ \A p \in Requests : p # r => request'[p] = request[p]
  BY DEF TypeOK
<1>2. lastStamp \in Nat /\ lastStamp <= lastStamp' /\ lastStamp' \in 0 .. MaxStamp
  BY WaitlistAssumption DEF TypeOK
<1>3. TypeOK'
  BY <1>1, <1>2 DEF TypeOK, RestTyped
<1>4. StampsAreUnique'
  <2>1. \A s \in Slots : entry[s].stamp \in Nat /\ entry[s].stamp <= lastStamp
    BY DEF TypeOK, Row, Stamps, StampsAreUnique
  <2>2. ASSUME NEW p \in Requests, request[p].step = "commit"
        PROVE  request[p].stamp \in Nat /\ request[p].stamp <= lastStamp
    BY <1>2, <2>2 DEF StampsAreUnique
  <2>3. ASSUME NEW p \in Requests, request'[p].step = "commit"
        PROVE  /\ request'[p].stamp \in 1 .. lastStamp'
               /\ entry[request'[p].slot].status = "none"
               /\ \A s \in Slots : entry[s].stamp # request'[p].stamp
               /\ \A o \in Requests : request'[o].step = "commit" /\ o # p =>
                     request'[o].stamp # request'[p].stamp /\ request'[o].slot # request'[p].slot
    <3>1. CASE p = r
      BY <1>1, <1>2, <2>1, <2>2, <2>3, <3>1 DEF Inserting
    <3>2. CASE p # r
      BY <1>1, <1>2, <2>1, <2>2, <2>3, <3>2 DEF StampsAreUnique, Inserting
    <3> QED BY <3>1, <3>2
  <2> QED BY <1>2, <2>1, <2>3 DEF StampsAreUnique
<1>5. OffersAreDistinct'
  BY DEF OffersAreDistinct, StillWaiting
<1>6. NobodyPassedOver'
  BY DEF NobodyPassedOver, StillWaiting
<1>7. ArrivalsAreUnique'
  <2>1. \A t \in Tiers : Arrived(t) \subseteq 1 .. lastStamp /\ Arrived(t)' = Arrived(t)
    BY DEF ArrivalsAreUnique, Arrived
  <2>2. \A t \in Tiers : Arrived(t) \subseteq 1 .. lastStamp' /\ lastStamp + 1 \notin Arrived(t)
    BY <1>2, <2>1
  <2> QED BY <1>1, <2>1, <2>2 DEF ArrivalsAreUnique
<1>8. SeenInOrder'
  <2>1. ASSUME NEW k \in Tasks, task[k].step # "none" PROVE InOrder(task[k])'
    <3>1. InOrder(task[k])
      BY <2>1 DEF SeenInOrder
    <3> QED BY <3>1 DEF InOrder, Arrived, StillWaiting
  <2> QED BY <2>1 DEF SeenInOrder
<1> QED BY <1>3, <1>4, <1>5, <1>6, <1>7, <1>8

(* A step of one task that leaves the rows alone keeps QueueInv when what  *)
(* the task has passed waits no more and a row it locks is its own.        *)
LEMMA TaskStep ==
  ASSUME QueueInv, NEW k \in Tasks, NEW w \in TaskRecord, task' = [task EXCEPT ![k] = w],
         UNCHANGED <<entry, lastStamp, arrived, request>>, RestTyped',
         w.step # "none" =>
            w.tier \in Tiers /\ InOrder(w),
         w.step = "select" => \A n \in w.seen \ w.todo : ~StillWaiting(n),
         w.step = "locked" =>
            /\ StillWaiting(w.row)
            /\ \A n \in w.seen : n < w.row => ~StillWaiting(n)
            /\ \A l \in Tasks \ {k} : ~(task[l].step = "locked" /\ task[l].row = w.row)
  PROVE  QueueInv'
<1> USE DEF QueueInv
<1>1. /\ task' \in [Tasks -> TaskRecord] /\ task'[k] = w
      /\ \A l \in Tasks : l # k => task'[l] = task[l]
  BY DEF TypeOK
<1>2. \A n : StillWaiting(n)' = StillWaiting(n)
  BY DEF StillWaiting
<1>3. \A t : Arrived(t)' = Arrived(t)
  BY DEF Arrived
<1>4. TypeOK'
  BY <1>1 DEF TypeOK, RestTyped
<1>5. StampsAreUnique'
  BY DEF StampsAreUnique
<1>6. OffersAreDistinct'
  BY <1>1, <1>2 DEF OffersAreDistinct
<1>7. NobodyPassedOver'
  <2>1. ASSUME NEW l \in Tasks
        PROVE  /\ task'[l].step = "select" => \A n \in task'[l].seen \ task'[l].todo : ~StillWaiting(n)
               /\ task'[l].step = "locked" => \A n \in task'[l].seen : n < task'[l].row => ~StillWaiting(n)
    BY <1>1 DEF NobodyPassedOver
  <2> QED BY <1>2, <2>1 DEF NobodyPassedOver
<1>8. ArrivalsAreUnique'
  BY <1>3 DEF ArrivalsAreUnique
<1>9. SeenInOrder'
  <2>1. ASSUME NEW l \in Tasks, task'[l].step # "none" PROVE InOrder(task'[l])
    BY <1>1, <2>1 DEF SeenInOrder
  <2>2. \A v : InOrder(v)' = InOrder(v)
    BY DEF InOrder, Arrived, StillWaiting
  <2>3. ASSUME NEW l \in Tasks, task'[l].step # "none" PROVE InOrder(task[l])'
    <3>1. PICK v : v = task'[l]
      OBVIOUS
    <3>2. InOrder(v)'
      BY <2>1, <2>2, <2>3, <3>1
    <3> QED BY <3>1, <3>2 DEF InOrder
  <2> QED BY <2>3 DEF SeenInOrder
<1> QED BY <1>4, <1>5, <1>6, <1>7, <1>8, <1>9

(* Rows that leave, lapse, age or are offered a place keep QueueInv when   *)
(* none starts to wait and none is taken from under a task that has locked *)
(* it; a task that has made its offer goes on to the mail.                 *)
LEMMA EntryStep ==
  ASSUME QueueInv, UNCHANGED <<lastStamp, arrived, request>>, RestTyped',
         entry' \in [Slots -> Row],
         \A s \in Slots :
            /\ entry'[s].status = "none" <=> entry'[s].stamp = 0
            /\ entry'[s].stamp \in {0, entry[s].stamp}
            /\ entry'[s].status = "waiting" => entry[s].status = "waiting",
         task' \in [Tasks -> TaskRecord],
         \A k \in Tasks :
            /\ task'[k].tier = task[k].tier /\ task'[k].seen = task[k].seen
            /\ task'[k].todo = task[k].todo /\ task'[k].row = task[k].row
            /\ task'[k].step = task[k].step \/ (task[k].step = "locked" /\ task'[k].step = "mail")
            /\ task'[k].step = "locked" => StillWaiting(task[k].row)'
  PROVE  QueueInv'
<1> USE DEF QueueInv
<1>1. ASSUME NEW n \in Stamps, StillWaiting(n)' PROVE StillWaiting(n)
  <2>1. PICK s \in Slots : entry'[s].stamp = n /\ entry'[s].status = "waiting"
    BY <1>1 DEF StillWaiting
  <2>2. entry[s].stamp = n /\ entry[s].status = "waiting"
    BY <2>1 DEF Stamps
  <2> QED BY <2>2 DEF StillWaiting
<1>2. \A t : Arrived(t)' = Arrived(t)
  BY DEF Arrived
<1>3. TypeOK'
  BY DEF TypeOK, RestTyped
<1>4. StampsAreUnique'
  <2>1. \A s \in Slots : entry[s].stamp \in Nat
    BY DEF TypeOK, Row, Stamps
  <2>2. lastStamp \in Nat
    BY WaitlistAssumption DEF TypeOK
  <2>3. \A s, z \in Slots : entry'[s].stamp = entry'[z].stamp /\ entry'[s].stamp # 0 => s = z
    BY DEF StampsAreUnique
  <2>4. \A s \in Slots : entry'[s].stamp <= lastStamp
    BY <2>1, <2>2 DEF StampsAreUnique
  <2>5. ASSUME NEW r \in Requests, request[r].step = "commit"
        PROVE  entry'[request[r].slot].status = "none" /\ \A s \in Slots : entry'[s].stamp # request[r].stamp
    <3>1. request[r].stamp \in 1 .. lastStamp /\ request[r].slot \in Slots
          /\ entry[request[r].slot].status = "none"
      BY <2>5 DEF StampsAreUnique, TypeOK
    <3>2. entry[request[r].slot].stamp = 0
      BY <3>1 DEF TypeOK
    <3> QED BY <2>2, <2>5, <3>1, <3>2 DEF StampsAreUnique
  <2> QED BY <2>3, <2>4, <2>5 DEF StampsAreUnique
<1>5. OffersAreDistinct'
  BY DEF OffersAreDistinct
<1>6. NobodyPassedOver'
  <2>1. \A k \in Tasks : task[k].seen \subseteq Stamps
    BY DEF TypeOK, TaskRecord
  <2> QED BY <1>1, <2>1 DEF NobodyPassedOver
<1>7. ArrivalsAreUnique'
  <2>1. ASSUME NEW u \in Users, NEW t \in Tiers, entry'[<<u, t>>].status # "none"
        PROVE  entry'[<<u, t>>].stamp \in Arrived(t)
    <3>1. <<u, t>> \in Slots
      BY DEF Slots
    <3>2. entry'[<<u, t>>].stamp = entry[<<u, t>>].stamp /\ entry[<<u, t>>].status # "none"
      BY <2>1, <3>1 DEF TypeOK
    <3> QED BY <3>2 DEF ArrivalsAreUnique
  <2> QED BY <1>2, <2>1 DEF ArrivalsAreUnique
<1>8. SeenInOrder'
  <2>1. ASSUME NEW k \in Tasks, task'[k].step # "none" PROVE InOrder(task[k])'
    <3>1. PICK w \in TaskRecord, x \in Tiers : w = task'[k] /\ w.tier = x
      BY <2>1 DEF TypeOK
    <3>2. /\ task[k].step # "none" /\ (w.step \in {"locked", "mail", "ack"} => task[k].step \in {"locked", "mail", "ack"})
          /\ task[k].tier = x /\ task[k].seen = w.seen /\ task[k].todo = w.todo /\ task[k].row = w.row
      BY <2>1, <3>1
    <3>3. InOrder(task[k])
      BY <3>2 DEF SeenInOrder
    <3>4. \A i \in DOMAIN arrived[x] : arrived[x][i] \in Stamps
      BY LenProperties DEF TypeOK
    <3>5. \A i \in DOMAIN arrived[x] : StillWaiting(arrived[x][i])' => StillWaiting(arrived[x][i])
      <4>1. ASSUME NEW i \in DOMAIN arrived[x], NEW n \in Stamps, arrived[x][i] = n, StillWaiting(arrived[x][i])'
            PROVE  StillWaiting(arrived[x][i])
        <5>1. StillWaiting(n)'
          BY <4>1 DEF StillWaiting
        <5>2. StillWaiting(n)
          BY <1>1, <5>1
        <5> QED BY <4>1, <5>2
      <4> QED BY <3>4, <4>1
    <3>6. InOrder(w)'
      BY <1>2, <3>1, <3>2, <3>3, <3>5 DEF InOrder
    <3> QED BY <3>1, <3>6 DEF InOrder
  <2> QED BY <2>1 DEF SeenInOrder
<1> QED BY <1>3, <1>4, <1>5, <1>6, <1>7, <1>8

(* The request r makes the row n of a user and a tier visible.             *)
Appears(r, u, t, n) ==
    /\ request[r].slot = <<u, t>> /\ request[r].stamp = n
    /\ request[r].step = "commit" /\ <<u, t>> \in Slots
    /\ n \in 1 .. lastStamp /\ lastStamp \in Nat
    /\ entry[<<u, t>>].status = "none" /\ entry[<<u, t>>].stamp = 0
    /\ \A z \in Slots : entry[z].stamp # n
    /\ \A x \in Tiers : n \notin Arrived(x)
    /\ entry' \in [Slots -> Row]
    /\ entry'[<<u, t>>].status = "waiting" /\ entry'[<<u, t>>].stamp = n
    /\ \A z \in Slots : z # <<u, t>> => entry'[z] = entry[z]
    /\ arrived' \in [Tiers -> Seq(Stamps)] /\ arrived'[t] = Append(arrived[t], n)
    /\ \A x \in Tiers : x # t => arrived'[x] = arrived[x]
    /\ Arrived(t)' = Arrived(t) \cup {n} /\ \A x \in Tiers : x # t => Arrived(x)' = Arrived(x)

(* The INSERT commits: the row becomes visible behind all the others of    *)
(* its tier.                                                               *)
LEMMA RowAppears ==
  ASSUME QueueInv, NEW r \in Requests, JoinCommit(r)
  PROVE  \E u \in Users, t \in Tiers, n \in Stamps : Appears(r, u, t, n)
<1> USE DEF QueueInv
<1>1. PICK u \in Users, t \in Tiers, n \in Stamps : request[r].slot = <<u, t>> /\ request[r].stamp = n
  <2>1. request[r].step = "commit" /\ request[r].slot \in Slots
    BY DEF JoinCommit, Refuse, TypeOK
  <2>2. request[r].stamp \in 1 .. lastStamp /\ lastStamp \in 0 .. MaxStamp
    BY <2>1 DEF StampsAreUnique, TypeOK
  <2> QED BY <2>1, <2>2, WaitlistAssumption DEF Slots, Stamps
<1> DEFINE s == <<u, t>>
           row == [status |-> "waiting", stamp |-> n, left |-> {}]
<1>2. /\ request[r].step = "commit" /\ s \in Slots
      /\ n \in 1 .. lastStamp /\ lastStamp \in Nat
      /\ entry[s].status = "none" /\ entry[s].stamp = 0
      /\ \A z \in Slots : entry[z].stamp # n
      /\ \A x \in Tiers : n \notin Arrived(x)
  <2>1. request[r].step = "commit" /\ s \in Slots
    BY DEF JoinCommit, Refuse, Slots
  <2>2. n \in 1 .. lastStamp /\ entry[s].status = "none" /\ \A z \in Slots : entry[z].stamp # n
    BY <1>1, <2>1 DEF StampsAreUnique
  <2>3. entry[s].stamp = 0 /\ lastStamp \in Nat
    BY <2>1, <2>2, WaitlistAssumption DEF TypeOK
  <2>4. \A x \in Tiers : n \notin Arrived(x)
    BY <1>1, <2>1 DEF ArrivalsAreUnique
  <2> QED BY <2>1, <2>2, <2>3, <2>4
<1>3. row \in Row
  BY <1>1 DEF Row
<1>4. entry' = [entry EXCEPT ![s] = row] /\ row.status = "waiting" /\ row.stamp = n
  BY <1>1 DEF JoinCommit
<1>5. arrived' = [arrived EXCEPT ![t] = Append(arrived[t], n)]
  BY <1>1 DEF JoinCommit
<1> HIDE DEF row
<1>6. /\ entry' \in [Slots -> Row]
      /\ entry'[s].status = "waiting" /\ entry'[s].stamp = n
      /\ \A z \in Slots : z # s => entry'[z] = entry[z]
  BY <1>2, <1>3, <1>4 DEF TypeOK
<1>7. /\ Len(arrived[t]) \in Nat /\ DOMAIN arrived[t] = 1 .. Len(arrived[t])
      /\ DOMAIN arrived'[t] = 1 .. (Len(arrived[t]) + 1)
      /\ \A i \in DOMAIN arrived[t] : arrived'[t][i] = arrived[t][i] /\ arrived[t][i] \in Stamps
      /\ arrived'[t][Len(arrived[t]) + 1] = n
      /\ \A x \in Tiers : x # t => arrived'[x] = arrived[x]
      /\ arrived' \in [Tiers -> Seq(Stamps)]
  <2>1. arrived[t] \in Seq(Stamps) /\ arrived'[t] = Append(arrived[t], n)
    BY <1>5 DEF TypeOK
  <2>2. Append(arrived[t], n) \in Seq(Stamps)
    BY <2>1
  <2>3. arrived' \in [Tiers -> Seq(Stamps)] /\ \A x \in Tiers : x # t => arrived'[x] = arrived[x]
    BY <1>5, <2>2 DEF TypeOK
  <2>4. /\ Len(arrived[t]) \in Nat /\ DOMAIN arrived[t] = 1 .. Len(arrived[t])
        /\ DOMAIN Append(arrived[t], n) = 1 .. (Len(arrived[t]) + 1)
        /\ \A i \in DOMAIN arrived[t] : Append(arrived[t], n)[i] = arrived[t][i] /\ arrived[t][i] \in Stamps
        /\ Append(arrived[t], n)[Len(arrived[t]) + 1] = n
    BY <2>1
  <2> QED BY <2>1, <2>2, <2>3, <2>4
<1>8. \A i \in DOMAIN arrived'[t] : i \in DOMAIN arrived[t] \/ i = Len(arrived[t]) + 1
  BY <1>7
<1>9. Arrived(t)' = Arrived(t) \cup {n} /\ \A x \in Tiers : x # t => Arrived(x)' = Arrived(x)
  <2>1. ASSUME NEW m PROVE m \in Arrived(t)' <=> m \in Arrived(t) \cup {n}
    <3>1. CASE m = n
      BY <1>7, <3>1 DEF Arrived
    <3>2. CASE m # n
      BY <1>7, <1>8, <3>2 DEF Arrived
    <3> QED BY <3>1, <3>2
  <2>2. \A x \in Tiers : x # t => Arrived(x)' = Arrived(x)
    BY <1>7 DEF Arrived
  <2> QED BY <2>1, <2>2
<1>10. arrived'[t] = Append(arrived[t], n)
  BY <1>5 DEF TypeOK
<1> QED BY <1>1, <1>2, <1>6, <1>7, <1>9, <1>10 DEF Appears

(* A row that becomes visible keeps QueueInv.                              *)
LEMMA JoinCommitStep ==
  ASSUME QueueInv, NEW r \in Requests, JoinCommit(r)
  PROVE  QueueInv'
<1> USE DEF QueueInv
<1>1. PICK u \in Users, t \in Tiers, n \in Stamps : Appears(r, u, t, n)
  BY RowAppears
<1> DEFINE s == <<u, t>>
<1>2. /\ request[r].step = "commit" /\ s \in Slots
      /\ n \in 1 .. lastStamp /\ lastStamp \in Nat
      /\ entry[s].status = "none" /\ entry[s].stamp = 0
      /\ \A z \in Slots : entry[z].stamp # n
      /\ \A x \in Tiers : n \notin Arrived(x)
  BY <1>1 DEF Appears
<1>3. /\ request' = [request EXCEPT ![r] = NoRequest]
      /\ UNCHANGED <<lastStamp, task>> /\ RestTyped'
  BY DEF JoinCommit, Refuse, RestTyped, saleVars, eventVars, taskVars, TypeOK
<1>4. /\ entry' \in [Slots -> Row]
      /\ entry'[s].status = "waiting" /\ entry'[s].stamp = n
      /\ \A z \in Slots : z # s => entry'[z] = entry[z]
  BY <1>1 DEF Appears
<1>5. NoRequest \in RequestRecord /\ NoRequest.step = "idle"
  BY DEF NoRequest, RequestRecord
<1>6. /\ request' \in [Requests -> RequestRecord] /\ request'[r].step = "idle"
      /\ \A q \in Requests : q # r => request'[q] = request[q]
  BY <1>3, <1>5 DEF TypeOK
<1>7. /\ Len(arrived[t]) \in Nat /\ DOMAIN arrived[t] = 1 .. Len(arrived[t])
      /\ DOMAIN arrived'[t] = 1 .. (Len(arrived[t]) + 1)
      /\ \A i \in DOMAIN arrived[t] : arrived'[t][i] = arrived[t][i] /\ arrived[t][i] \in Stamps
      /\ arrived'[t][Len(arrived[t]) + 1] = n
      /\ \A x \in Tiers : x # t => arrived'[x] = arrived[x]
      /\ arrived' \in [Tiers -> Seq(Stamps)]
  <2>1. arrived[t] \in Seq(Stamps) /\ arrived'[t] = Append(arrived[t], n)
    BY <1>1 DEF Appears, TypeOK
  <2>2. /\ Len(arrived[t]) \in Nat /\ DOMAIN arrived[t] = 1 .. Len(arrived[t])
        /\ DOMAIN Append(arrived[t], n) = 1 .. (Len(arrived[t]) + 1)
        /\ \A i \in DOMAIN arrived[t] : Append(arrived[t], n)[i] = arrived[t][i] /\ arrived[t][i] \in Stamps
        /\ Append(arrived[t], n)[Len(arrived[t]) + 1] = n
    BY <2>1
  <2> QED BY <1>1, <2>1, <2>2 DEF Appears
<1>8. \A i \in DOMAIN arrived'[t] : i \in DOMAIN arrived[t] \/ i = Len(arrived[t]) + 1
  BY <1>7
<1>9. Arrived(t)' = Arrived(t) \cup {n} /\ \A x \in Tiers : x # t => Arrived(x)' = Arrived(x)
  BY <1>1 DEF Appears
<1>10. \A m \in Stamps : StillWaiting(m)' <=> (StillWaiting(m) \/ m = n)
  BY <1>2, <1>4 DEF StillWaiting
<1>11. \A x \in Tiers : Arrived(x) \subseteq Stamps
  <2>1. 1 .. lastStamp \subseteq Stamps
    BY WaitlistAssumption DEF TypeOK, Stamps
  <2> QED BY <2>1 DEF ArrivalsAreUnique
<1>12. TypeOK'
  <2>1. \A z \in Slots : entry'[z].status = "none" <=> entry'[z].stamp = 0
    <3>1. n # 0 /\ \A z \in Slots : entry[z].status = "none" <=> entry[z].stamp = 0
      BY <1>2 DEF TypeOK
    <3>2. ASSUME NEW z \in Slots PROVE entry'[z].status = "none" <=> entry'[z].stamp = 0
      BY <1>4, <3>1
    <3> QED BY <3>2
  <2>2. \A q \in Requests : request'[q].step # "idle" => request'[q].slot \in Slots
    BY <1>6 DEF TypeOK
  <2>3. /\ lastStamp' \in 0 .. MaxStamp /\ task' \in [Tasks -> TaskRecord]
        /\ \A k \in Tasks : task'[k].step # "none" => task'[k].tier \in Tiers
    BY <1>3 DEF TypeOK
  <2>4. RestTyped' /\ entry' \in [Slots -> Row] /\ request' \in [Requests -> RequestRecord]
        /\ arrived' \in [Tiers -> Seq(Stamps)]
    BY <1>3, <1>4, <1>6, <1>7
  <2> QED BY <2>1, <2>2, <2>3, <2>4, Zenon DEF TypeOK, RestTyped
<1>13. StampsAreUnique'
  <2>1. \A z, y \in Slots : entry'[z].stamp = entry'[y].stamp /\ entry'[z].stamp # 0 => z = y
    BY <1>2, <1>4 DEF StampsAreUnique
  <2>2. \A z \in Slots : entry'[z].stamp <= lastStamp
    BY <1>2, <1>4 DEF StampsAreUnique
  <2>3. ASSUME NEW q \in Requests, request'[q].step = "commit"
        PROVE  /\ request'[q].stamp \in 1 .. lastStamp
               /\ entry'[request'[q].slot].status = "none"
               /\ \A z \in Slots : entry'[z].stamp # request'[q].stamp
               /\ \A o \in Requests : request'[o].step = "commit" /\ o # q =>
                     request'[o].stamp # request'[q].stamp /\ request'[o].slot # request'[q].slot
    <3>1. q # r /\ request'[q] = request[q] /\ request[q].slot \in Slots
      BY <1>6, <2>3 DEF TypeOK
    <3>2. request[q].slot # s /\ request[q].stamp # n
      <4>1. request[q].step = "commit" /\ request[r].step = "commit"
        BY <1>2, <2>3, <3>1
      <4>2. request[q].stamp # request[r].stamp /\ request[q].slot # request[r].slot
        BY <3>1, <4>1 DEF StampsAreUnique
      <4>3. request[r].slot = s /\ request[r].stamp = n
        BY <1>1 DEF Appears
      <4> QED BY <4>2, <4>3
    <3> QED BY <1>2, <1>4, <1>6, <2>3, <3>1, <3>2 DEF StampsAreUnique
  <2> QED BY <1>3, <2>1, <2>2, <2>3 DEF StampsAreUnique
<1>14. \A k \in Tasks : task[k].step # "none" =>
          /\ task[k].tier \in Tiers /\ n \notin task[k].seen /\ task[k].seen \subseteq Stamps
  BY <1>2 DEF SeenInOrder, InOrder, TypeOK, TaskRecord
<1>15. OffersAreDistinct'
  <2>1. ASSUME NEW k \in Tasks, task[k].step = "locked"
        PROVE  task[k].row \in Stamps /\ StillWaiting(task[k].row)
    <3>1. StillWaiting(task[k].row) /\ task[k].row \in {0} \cup Stamps
      BY <2>1 DEF OffersAreDistinct, TypeOK, TaskRecord
    <3>2. task[k].row # 0
      BY <3>1 DEF StillWaiting, TypeOK
    <3> QED BY <3>1, <3>2
  <2>2. ASSUME NEW k \in Tasks, task[k].step = "locked" PROVE StillWaiting(task[k].row)'
    <3>1. PICK m \in Stamps : m = task[k].row
      BY <2>1, <2>2
    <3>2. StillWaiting(m)'
      BY <1>10, <2>1, <2>2, <3>1
    <3> QED BY <1>3, <3>1, <3>2
  <2> QED BY <1>3, <2>2 DEF OffersAreDistinct
<1>16. NobodyPassedOver'
  BY <1>3, <1>10, <1>14 DEF NobodyPassedOver
<1>17. ArrivalsAreUnique'
  <2>1. \A x \in Tiers : Arrived(x)' \subseteq 1 .. lastStamp
    BY <1>2, <1>9 DEF ArrivalsAreUnique
  <2>2. \A x, y \in Tiers : (Arrived(x) \cap Arrived(y))' # {} => x = y
    BY <1>2, <1>9 DEF ArrivalsAreUnique
  <2>3. ASSUME NEW v \in Users, NEW x \in Tiers, entry'[<<v, x>>].status # "none"
        PROVE  entry'[<<v, x>>].stamp \in Arrived(x)'
    <3>1. CASE <<v, x>> = s
      BY <1>4, <1>9, <3>1
    <3>2. CASE <<v, x>> # s
      BY <1>4, <1>9, <2>3, <3>2 DEF ArrivalsAreUnique, Slots
    <3> QED BY <3>1, <3>2
  <2>4. ASSUME NEW q \in Requests, NEW x \in Tiers, request'[q].step = "commit"
        PROVE  request'[q].stamp \notin Arrived(x)'
    <3>1. q # r /\ request'[q] = request[q] /\ request[q].stamp # n
      <4>1. q # r /\ request'[q] = request[q] /\ request[q].step = "commit"
        BY <1>6, <2>4
      <4>2. request[q].stamp # request[r].stamp
        BY <1>2, <4>1 DEF StampsAreUnique
      <4> QED BY <1>1, <4>1, <4>2 DEF Appears
    <3> QED BY <1>9, <2>4, <3>1 DEF ArrivalsAreUnique
  <2> QED BY <1>3, <2>1, <2>2, <2>3, <2>4 DEF ArrivalsAreUnique
<1>18. SeenInOrder'
  <2>1. ASSUME NEW k \in Tasks, task[k].step # "none" PROVE InOrder(task[k])'
    <3>1. PICK w \in TaskRecord, x \in Tiers : w = task[k] /\ w.tier = x
      BY <1>14, <2>1 DEF TypeOK
    <3>2. InOrder(w) /\ n \notin w.seen
      BY <1>14, <2>1, <3>1 DEF SeenInOrder
    <3>3. w.seen \subseteq Arrived(x)'
      BY <1>9, <3>1, <3>2 DEF InOrder
    <3>4. ASSUME NEW i \in DOMAIN arrived'[x], NEW j \in DOMAIN arrived'[x],
                 i < j, arrived'[x][j] \in w.seen, NEW m, m = arrived'[x][i], StillWaiting(m)'
          PROVE  m \in w.seen
      <4>1. /\ i \in DOMAIN arrived[x] /\ j \in DOMAIN arrived[x]
            /\ arrived'[x][i] = arrived[x][i] /\ arrived'[x][j] = arrived[x][j]
            /\ m \in Stamps
        <5>1. CASE x = t
          <6>1. j \in DOMAIN arrived[t]
            BY <1>7, <1>8, <3>2, <3>4, <5>1
          <6>2. i \in DOMAIN arrived[t]
            BY <1>7, <3>4, <5>1, <6>1
          <6> QED BY <1>7, <3>4, <5>1, <6>1, <6>2
        <5>2. CASE x # t
          <6>1. arrived'[x] = arrived[x]
            BY <1>7, <5>2
          <6>2. m \in Arrived(x)
            BY <3>4, <6>1 DEF Arrived
          <6> QED BY <1>11, <3>4, <6>1, <6>2
        <5> QED BY <5>1, <5>2
      <4>2. CASE m = n
        <5>1. n \in Arrived(x)
          BY <3>4, <4>1, <4>2 DEF Arrived
        <5> QED BY <1>2, <5>1
      <4>3. CASE m # n
        <5>1. StillWaiting(m)
          BY <1>10, <3>4, <4>1, <4>3
        <5> QED BY <3>1, <3>2, <3>4, <4>1, <5>1 DEF InOrder
      <4> QED BY <4>2, <4>3
    <3>5. InOrder(w)'
      BY <3>1, <3>2, <3>3, <3>4 DEF InOrder
    <3> QED BY <1>3, <3>1, <3>5 DEF InOrder
  <2> QED BY <1>3, <2>1 DEF SeenInOrder
<1> QED BY <1>12, <1>13, <1>15, <1>16, <1>17, <1>18

-----------------------------------------------------------------------------

(* Buying, refunding and ending the event leave the queue alone, and so do *)
(* the steps of cancelEvent up to the DELETE, and what is owed.            *)
LEMMA SaleStep ==
  ASSUME QueueInv,
         \/ \E p \in Purchases : BuyTickets(p) \/ RefundTickets(p)
         \/ EndEvent \/ CancelEvent \/ VoidPurchases \/ ClearSelect \/ ClearFail
         \/ \E t \in Tiers : EnqueueFail(t)
  PROVE  QueueInv'
<1>1. UNCHANGED queue
  BY DEF BuyTickets, RefundTickets, EndEvent, CancelEvent, VoidPurchases, ClearSelect, ClearFail, EnqueueFail,
         queue, saleVars, eventVars, queueVars, taskVars
<1>2. RestTyped
  BY DEF QueueInv, TypeOK, RestTyped
<1> USE <1>2 DEF RestTyped, saleVars, eventVars, queueVars, taskVars
<1>3. ASSUME NEW p \in Purchases, BuyTickets(p) PROVE RestTyped'
  <2>1. TierOf[p] \in Tiers /\ Places[p] \in Nat
    BY WaitlistAssumption
  <2>2. stock[TierOf[p]] - Places[p] \in Nat
    BY <1>3, <2>1 DEF BuyTickets, Sell
  <2> QED BY <1>3, <2>1, <2>2 DEF BuyTickets, Sell
<1>4. ASSUME NEW p \in Purchases, RefundTickets(p) PROVE RestTyped'
  <2>1. TierOf[p] \in Tiers /\ Places[p] \in Nat
    BY WaitlistAssumption
  <2>2. stock' \in [Tiers -> Nat] /\ owed' \in [Tiers -> Nat]
    BY <1>4, <2>1 DEF RefundTickets, Refund
  <2> QED BY <1>4, <2>2 DEF RefundTickets, Refund
<1>5. ASSUME EndEvent \/ CancelEvent PROVE RestTyped'
  BY <1>5 DEF EndEvent, CancelEvent
<1>6. ASSUME VoidPurchases PROVE RestTyped'
  BY <1>6 DEF VoidPurchases, VoidAll
<1>7. ASSUME ClearSelect PROVE RestTyped'
  <2>1. \A s \in Slots : entry[s].status # "none" => entry[s].stamp \in Stamps
    BY DEF QueueInv, TypeOK, Row
  <2> QED BY <1>7, <2>1 DEF ClearSelect
<1>8. ASSUME ClearFail PROVE RestTyped'
  BY <1>8 DEF ClearFail
<1>9. ASSUME NEW t \in Tiers, EnqueueFail(t) PROVE RestTyped'
  <2>1. owed[t] - 1 \in Nat
    BY <1>9 DEF EnqueueFail
  <2> QED BY <1>9, <2>1 DEF EnqueueFail
<1> QED BY <1>1, <1>3, <1>4, <1>5, <1>6, <1>7, <1>8, <1>9, RestStep

(* Each step of joinWaitlist before the commit, and its failure.           *)
LEMMA JoinStep ==
  ASSUME QueueInv, NEW r \in Requests,
         \/ \E s \in Slots : JoinBegin(r, s)
         \/ JoinReadTier(r) \/ JoinReadPurchase(r) \/ JoinInsert(r) \/ JoinFail(r)
  PROVE  QueueInv'
<1>1. request \in [Requests -> RequestRecord] /\ request[r] \in RequestRecord
      /\ lastStamp \in 0 .. MaxStamp /\ RestTyped
      /\ (request[r].step # "idle" => request[r].slot \in Slots)
  BY DEF QueueInv, TypeOK, RestTyped
<1>2. NoRequest \in RequestRecord /\ NoRequest.step = "idle"
  BY DEF NoRequest, RequestRecord
<1>3. lastStamp' \in lastStamp .. MaxStamp
  <2>1. lastStamp' = lastStamp \/ (lastStamp < MaxStamp /\ lastStamp' = lastStamp + 1)
    BY DEF JoinBegin, JoinReadTier, JoinReadPurchase, JoinInsert, JoinFail, Refuse, queueVars
  <2> QED BY <1>1, <2>1, WaitlistAssumption
<1>4. UNCHANGED <<entry, arrived, task>> /\ RestTyped'
  BY <1>1 DEF JoinBegin, JoinReadTier, JoinReadPurchase, JoinInsert, JoinFail, queueVars, saleVars, eventVars,
              taskVars, RestTyped
<1>5. CASE request' = [request EXCEPT ![r] = NoRequest]
  BY <1>2, <1>3, <1>4, <1>5, RequestStep
<1>6. ASSUME NEW s \in Slots, NEW to \in {"tier", "purchase", "insert"},
             request' = [request EXCEPT ![r] = [step |-> to, slot |-> s, stamp |-> 0]]
      PROVE  QueueInv'
  <2> DEFINE q == [step |-> to, slot |-> s, stamp |-> 0]
  <2>1. q \in RequestRecord /\ q.step # "commit" /\ q.slot \in Slots
    BY <1>6 DEF RequestRecord
  <2> HIDE DEF q
  <2> QED BY <1>3, <1>4, <1>6, <2>1, RequestStep DEF q
<1>7. CASE /\ request[r].step = "insert" /\ ~Inserting(request[r].slot)
           /\ entry[request[r].slot].status = "none"
           /\ lastStamp < MaxStamp /\ lastStamp' = lastStamp + 1
           /\ request' = [request EXCEPT ![r].step = "commit", ![r].stamp = lastStamp + 1]
  <2>1. PICK n \in Stamps : n = lastStamp + 1
    BY <1>1, <1>7, WaitlistAssumption DEF Stamps
  <2>2. PICK s \in Slots : s = request[r].slot
    BY <1>1, <1>7
  <2>3. PICK q : q = [request[r] EXCEPT !.step = "commit", !.stamp = n]
    OBVIOUS
  <2>4. q \in RequestRecord /\ q.step = "commit" /\ q.slot = s /\ q.stamp = n
    BY <1>1, <2>2, <2>3 DEF RequestRecord
  <2>5. request' = [request EXCEPT ![r] = q]
    BY <1>1, <1>7, <2>1, <2>3
  <2> QED BY <1>3, <1>4, <1>7, <2>1, <2>2, <2>4, <2>5, RequestStep
<1>8. CASE \E s \in Slots : JoinBegin(r, s)
  BY <1>6, <1>8 DEF JoinBegin, AskFor
<1>9. CASE JoinReadTier(r)
  BY <1>1, <1>5, <1>6, <1>9 DEF JoinReadTier, AskFor, Refuse
<1>10. CASE JoinReadPurchase(r)
  BY <1>1, <1>5, <1>6, <1>10 DEF JoinReadPurchase, AskFor, Refuse
<1>11. CASE JoinInsert(r)
  BY <1>5, <1>7, <1>11 DEF JoinInsert, Refuse
<1>12. CASE JoinFail(r)
  BY <1>5, <1>12 DEF JoinFail, Refuse
<1> QED BY <1>8, <1>9, <1>10, <1>11, <1>12

(* A task that is queued has seen nothing yet.                             *)
LEMMA FreshTask ==
  ASSUME NEW t \in Tiers, NEW i \in 0 .. MaxRetry
  PROVE  LET w == [NoTask EXCEPT !.step = "queued", !.tier = t, !.retried = i]
         IN  w \in TaskRecord /\ w.step = "queued" /\ w.tier = t /\ InOrder(w)
<1> DEFINE w == [NoTask EXCEPT !.step = "queued", !.tier = t, !.retried = i]
<1>1. w \in TaskRecord /\ w.step = "queued" /\ w.tier = t /\ w.seen = {} /\ w.todo = {}
  BY DEF NoTask, TaskRecord
<1>2. InOrder(w)
  <2> HIDE DEF w
  <2> QED BY <1>1 DEF InOrder
<1> QED BY <1>1, <1>2

(* Enqueue fills a free slot with such a task.                             *)
LEMMA EnqueueStep ==
  ASSUME QueueInv, NEW t \in Tiers, Enqueue(t)
  PROVE  QueueInv'
<1>1. PICK k \in Tasks : task' = [task EXCEPT ![k] = [NoTask EXCEPT !.step = "queued", !.tier = t]]
  BY DEF Enqueue
<1>2. RestTyped'
  <2>1. owed[t] - 1 \in Nat
    BY DEF Enqueue, QueueInv, TypeOK
  <2> QED BY <2>1 DEF Enqueue, QueueInv, TypeOK, RestTyped, saleVars, eventVars
<1>3. UNCHANGED <<entry, lastStamp, arrived, request>>
  BY DEF Enqueue, queueVars
<1>4. PICK w : w = [NoTask EXCEPT !.step = "queued", !.tier = t]
  OBVIOUS
<1>5. w \in TaskRecord /\ w.step = "queued" /\ w.tier = t /\ w.seen = {} /\ w.todo = {}
  <2>1. 0 \in 0 .. MaxRetry
    BY WaitlistAssumption
  <2> QED BY <1>4, <2>1 DEF NoTask, TaskRecord
<1>6. InOrder(w) /\ task' = [task EXCEPT ![k] = w]
  BY <1>1, <1>4, <1>5 DEF InOrder
<1> QED BY <1>2, <1>3, <1>5, <1>6, TaskStep

(* A task that is asked to run again starts from nothing.                  *)
LEMMA TaskFailStep ==
  ASSUME QueueInv, NEW k \in Tasks, TaskFail(k)
  PROVE  QueueInv'
<1>1. task[k] \in TaskRecord /\ task[k].tier \in Tiers /\ task[k].retried \in 0 .. MaxRetry
  BY DEF TaskFail, QueueInv, TypeOK, TaskRecord
<1>2. RestTyped' /\ UNCHANGED <<entry, lastStamp, arrived, request>>
  BY DEF TaskFail, QueueInv, TypeOK, RestTyped, saleVars, eventVars, queueVars
<1>3. CASE task[k].retried < MaxRetry
  <2>1. task[k].retried + 1 \in 0 .. MaxRetry
    BY <1>1, <1>3, WaitlistAssumption
  <2>2. task' = [task EXCEPT ![k] = [NoTask EXCEPT !.step = "queued", !.tier = task[k].tier,
                                                   !.retried = task[k].retried + 1]]
    BY <1>3 DEF TaskFail, Retry
  <2>3. PICK w \in TaskRecord :
           task' = [task EXCEPT ![k] = w] /\ w.step = "queued" /\ w.tier \in Tiers /\ InOrder(w)
    BY <1>1, <2>1, <2>2, FreshTask
  <2> QED BY <1>2, <2>3, TaskStep
<1>4. CASE ~(task[k].retried < MaxRetry)
  <2>1. task' = [task EXCEPT ![k] = NoTask]
    BY <1>4 DEF TaskFail, Retry
  <2>2. NoTask \in TaskRecord /\ NoTask.step = "none"
    BY WaitlistAssumption DEF NoTask, TaskRecord
  <2> QED BY <1>2, <2>1, <2>2, TaskStep
<1> QED BY <1>3, <1>4

(* The SELECT sees every row of the tier that waits.                       *)
LEMMA NotifyBeginStep ==
  ASSUME QueueInv, NEW k \in Tasks, NotifyBegin(k)
  PROVE  QueueInv'
<1> DEFINE x == task[k].tier
           rows == WaitingRows(x)
           w == [task[k] EXCEPT !.step = "select", !.seen = rows, !.todo = rows]
<1>1. task[k] \in TaskRecord /\ x \in Tiers /\ task \in [Tasks -> TaskRecord]
  BY DEF NotifyBegin, QueueInv, TypeOK
<1>2. RestTyped' /\ UNCHANGED <<entry, lastStamp, arrived, request>>
  BY DEF NotifyBegin, QueueInv, TypeOK, RestTyped, saleVars, eventVars, queueVars
<1>3. rows \subseteq Stamps
  BY DEF WaitingRows
<1>4. ASSUME NEW n \in rows PROVE n \in Arrived(x)
  <2>1. PICK u \in Users : entry[<<u, x>>].stamp = n /\ entry[<<u, x>>].status = "waiting"
    BY <1>4 DEF WaitingRows
  <2> QED BY <1>1, <2>1 DEF QueueInv, ArrivalsAreUnique
<1>5. ASSUME NEW n \in Arrived(x), StillWaiting(n) PROVE n \in rows
  <2>1. PICK u \in Users, y \in Tiers : entry[<<u, y>>].stamp = n /\ entry[<<u, y>>].status = "waiting"
    BY <1>5 DEF StillWaiting, Slots
  <2>2. n \in Arrived(y)
    BY <2>1 DEF QueueInv, ArrivalsAreUnique
  <2>3. x = y
    BY <1>1, <2>2 DEF QueueInv, ArrivalsAreUnique
  <2>4. n \in Stamps
    BY <2>1 DEF QueueInv, TypeOK, Row, Slots
  <2> QED BY <2>1, <2>3, <2>4 DEF WaitingRows
<1>6. task' = [task EXCEPT ![k].step = "select", ![k].seen = rows, ![k].todo = rows]
  BY DEF NotifyBegin
<1> HIDE DEF rows
<1>7. w \in TaskRecord /\ w.step = "select" /\ w.seen = rows /\ w.todo = rows /\ w.tier = x
  BY <1>1, <1>3 DEF TaskRecord
<1>8. task' = [task EXCEPT ![k] = w]
  BY <1>1, <1>6
<1> HIDE DEF w, x
<1>9. InOrder(w)
  BY <1>4, <1>5, <1>7 DEF InOrder, Arrived
<1> QED BY <1>1, <1>2, <1>7, <1>8, <1>9, TaskStep

(* Rows are locked oldest first, and a lock is granted for one task at a   *)
(* time: a row that no longer waits then is passed over for good.          *)
LEMMA NotifyLockStep ==
  ASSUME QueueInv, NEW k \in Tasks, NotifyLock(k)
  PROVE  QueueInv'
<1> DEFINE n == NextInLine(task[k].todo)
<1>1. /\ task[k] \in TaskRecord /\ task[k].tier \in Tiers /\ task \in [Tasks -> TaskRecord]
      /\ task[k].step = "select" /\ task[k].todo # {} /\ task[k].todo \in SUBSET Stamps
      /\ task[k].seen \in SUBSET Stamps /\ RowFree(n)
  BY DEF NotifyLock, QueueInv, TypeOK, TaskRecord
<1>2. RestTyped' /\ UNCHANGED <<entry, lastStamp, arrived, request>>
  BY DEF NotifyLock, QueueInv, TypeOK, RestTyped, saleVars, eventVars, queueVars
<1>3. n \in task[k].todo /\ \A m \in task[k].todo : n <= m
  BY <1>1, NextIsOldest
<1>4. task' = IF StillWaiting(n)
              THEN [task EXCEPT ![k].step = "locked", ![k].row = n]
              ELSE [task EXCEPT ![k].todo = @ \ {n}]
  BY DEF NotifyLock
<1>5. InOrder(task[k]) /\ \A m \in task[k].seen \ task[k].todo : ~StillWaiting(m)
  BY <1>1 DEF QueueInv, SeenInOrder, NobodyPassedOver
<1> HIDE DEF n
<1>6. CASE StillWaiting(n)
  <2>1. PICK w : w = [task[k] EXCEPT !.step = "locked", !.row = n]
    OBVIOUS
  <2>2. /\ w \in TaskRecord /\ w.step = "locked" /\ w.row = n /\ w.seen = task[k].seen
        /\ w.todo = task[k].todo /\ w.tier = task[k].tier
    BY <1>1, <1>3, <2>1 DEF TaskRecord
  <2>3. task' = [task EXCEPT ![k] = w]
    BY <1>1, <1>4, <1>6, <2>1
  <2>4. InOrder(w)
    BY <1>3, <1>5, <2>2 DEF InOrder
  <2>5. ASSUME NEW m \in w.seen, m < w.row PROVE ~StillWaiting(m)
    <3>1. m \notin task[k].todo
      BY <1>1, <1>3, <2>2, <2>5 DEF Stamps
    <3> QED BY <1>5, <2>2, <3>1
  <2>6. \A l \in Tasks \ {k} : ~(task[l].step = "locked" /\ task[l].row = w.row)
    BY <1>1, <2>2 DEF RowFree
  <2> QED BY <1>1, <1>2, <1>6, <2>2, <2>3, <2>4, <2>5, <2>6, TaskStep
<1>7. CASE ~StillWaiting(n)
  <2>1. PICK w : w = [task[k] EXCEPT !.todo = task[k].todo \ {n}]
    OBVIOUS
  <2>2. /\ w \in TaskRecord /\ w.step = "select" /\ w.seen = task[k].seen
        /\ w.todo = task[k].todo \ {n} /\ w.tier = task[k].tier
    BY <1>1, <2>1 DEF TaskRecord
  <2>3. task' = [task EXCEPT ![k] = w]
    BY <1>1, <1>4, <1>7, <2>1
  <2>4. InOrder(w)
    BY <1>1, <1>5, <2>2 DEF InOrder
  <2> QED BY <1>1, <1>2, <1>5, <1>7, <2>2, <2>3, <2>4, TaskStep
<1> QED BY <1>6, <1>7

(* The mail, the acknowledgement and the end of a task.                    *)
LEMMA TaskEndsStep ==
  ASSUME QueueInv, NEW k \in Tasks, NotifyNobody(k) \/ SendMail(k) \/ TaskDone(k)
  PROVE  QueueInv'
<1>1. /\ task[k] \in TaskRecord /\ task[k].tier \in Tiers /\ task \in [Tasks -> TaskRecord]
      /\ task[k].step # "none"
  BY DEF NotifyNobody, SendMail, TaskDone, QueueInv, TypeOK
<1>2. UNCHANGED <<entry, lastStamp, arrived, request>>
  BY DEF NotifyNobody, SendMail, TaskDone, queueVars
<1>3. RestTyped /\ (UNCHANGED <<saleVars, eventVars, owed, mailed, lost>> => RestTyped')
  BY DEF QueueInv, TypeOK, RestTyped, saleVars, eventVars
<1>4. CASE NotifyNobody(k) \/ TaskDone(k)
  <2>1. task' = [task EXCEPT ![k] = NoTask] /\ RestTyped'
    BY <1>3, <1>4 DEF NotifyNobody, TaskDone
  <2>2. NoTask \in TaskRecord /\ NoTask.step = "none"
    BY WaitlistAssumption DEF NoTask, TaskRecord
  <2> QED BY <1>2, <2>1, <2>2, TaskStep
<1>5. CASE SendMail(k)
  <2>1. PICK w : w = [task[k] EXCEPT !.step = "ack"]
    OBVIOUS
  <2>2. /\ w \in TaskRecord /\ w.step = "ack" /\ w.seen = task[k].seen
        /\ w.todo = task[k].todo /\ w.tier = task[k].tier
    BY <1>1, <2>1 DEF TaskRecord
  <2>3. task' = [task EXCEPT ![k] = w]
    BY <1>1, <1>5, <2>1 DEF SendMail
  <2>4. InOrder(task[k])
    BY <1>1 DEF QueueInv, SeenInOrder
  <2>5. InOrder(w)
    <3>1. PICK v : v = task[k]
      OBVIOUS
    <3>2. /\ InOrder(v) /\ v.step = "mail" /\ w.step = "ack" /\ w.seen = v.seen
          /\ w.todo = v.todo /\ w.tier = v.tier /\ w.row = v.row
      BY <1>1, <1>5, <2>1, <2>2, <2>4, <3>1 DEF SendMail, TaskRecord
    <3> QED BY <3>2 DEF InOrder
  <2>6. RestTyped'
    <3>1. task[k].row \in Stamps
      BY <1>1, <1>5, <2>4 DEF SendMail, InOrder, TaskRecord
    <3>2. mailed' \subseteq Stamps
      BY <1>3, <1>5, <3>1 DEF SendMail, RestTyped
    <3> QED BY <1>3, <1>5, <3>2 DEF SendMail, RestTyped, saleVars, eventVars
  <2> QED BY <1>1, <1>2, <2>2, <2>3, <2>5, <2>6, TaskStep
<1> QED BY <1>4, <1>5

-----------------------------------------------------------------------------

(* The offer is made to the row that the task holds.                       *)
LEMMA NotifyCommitStep ==
  ASSUME QueueInv, NEW k \in Tasks, NotifyCommit(k)
  PROVE  QueueInv'
<1>1. /\ task \in [Tasks -> TaskRecord] /\ task[k].step = "locked" /\ entry \in [Slots -> Row]
      /\ task[k].row \in Stamps /\ Offer \in {{}} \cup {{h} : h \in -1 .. OfferHours}
  <2>1. task[k].step = "locked" /\ InOrder(task[k]) /\ task[k] \in TaskRecord
    BY DEF NotifyCommit, QueueInv, TypeOK, SeenInOrder
  <2>2. OfferHours \in -1 .. OfferHours
    BY WaitlistAssumption
  <2> QED BY <2>1, <2>2 DEF QueueInv, TypeOK, InOrder, TaskRecord, Offer
<1> PICK n \in Stamps : n = task[k].row
  BY <1>1
<1>2. PICK w : w = [task[k] EXCEPT !.step = "mail"]
  OBVIOUS
<1>3. /\ w \in TaskRecord /\ w.step = "mail" /\ w.seen = task[k].seen
      /\ w.todo = task[k].todo /\ w.tier = task[k].tier /\ w.row = n
  BY <1>1, <1>2 DEF TaskRecord
<1>4. task' = [task EXCEPT ![k] = w]
  BY <1>1, <1>2 DEF NotifyCommit
<1>5. /\ task' \in [Tasks -> TaskRecord] /\ task'[k] = w
      /\ \A l \in Tasks : l # k => task'[l] = task[l]
  BY <1>1, <1>3, <1>4
<1>6. ASSUME NEW s \in Slots
      PROVE  /\ entry'[s] \in Row /\ entry'[s].stamp = entry[s].stamp
             /\ entry[s].stamp = n => entry'[s].status = "notified"
             /\ entry[s].stamp # n => entry'[s].status = entry[s].status
  BY <1>1 DEF NotifyCommit, Row
<1>7. entry' \in [Slots -> Row]
  BY <1>6 DEF NotifyCommit
<1>8. ASSUME NEW s \in Slots
      PROVE  /\ entry'[s].status = "none" <=> entry'[s].stamp = 0
             /\ entry'[s].stamp \in {0, entry[s].stamp}
             /\ entry'[s].status = "waiting" => entry[s].status = "waiting"
  <2>1. n # 0 /\ (entry[s].status = "none" <=> entry[s].stamp = 0)
    BY DEF QueueInv, TypeOK, Stamps
  <2>2. CASE entry[s].stamp = n
    BY <1>6, <2>1, <2>2
  <2>3. CASE entry[s].stamp # n
    BY <1>6, <2>1, <2>3
  <2> QED BY <2>2, <2>3
<1>9. ASSUME NEW l \in Tasks, task'[l].step = "locked"
      PROVE  StillWaiting(task[l].row)'
  <2>1. task[l].step = "locked" /\ l # k /\ task'[l] = task[l]
    BY <1>3, <1>5, <1>9
  <2>2. task[l].row # n /\ StillWaiting(task[l].row)
    BY <1>1, <2>1 DEF QueueInv, OffersAreDistinct
  <2>3. PICK s \in Slots : entry[s].stamp = task[l].row /\ entry[s].status = "waiting"
    BY <2>2 DEF StillWaiting
  <2>4. entry'[s].stamp = task'[l].row /\ entry'[s].status = "waiting"
    BY <1>6, <2>1, <2>2, <2>3
  <2> QED BY <2>1, <2>4 DEF StillWaiting
<1>10. ASSUME NEW l \in Tasks
       PROVE  /\ task'[l].tier = task[l].tier /\ task'[l].seen = task[l].seen
              /\ task'[l].todo = task[l].todo /\ task'[l].row = task[l].row
              /\ task'[l].step = task[l].step \/ (task[l].step = "locked" /\ task'[l].step = "mail")
  BY <1>1, <1>3, <1>5
<1>11. RestTyped' /\ UNCHANGED <<lastStamp, arrived, request>>
  BY DEF NotifyCommit, QueueInv, TypeOK, RestTyped, saleVars, eventVars
<1> QED BY <1>5, <1>7, <1>8, <1>9, <1>10, <1>11, EntryStep

(* A row that is deleted is one that no task has locked.                   *)
LEMMA RowsLeaveStep ==
  ASSUME QueueInv, NEW D \in SUBSET Stamps, \A n \in D : RowFree(n),
         UNCHANGED <<lastStamp, arrived, request, task>>, RestTyped',
         entry' = [s \in Slots |-> IF entry[s].stamp \in D THEN NoEntry ELSE entry[s]]
  PROVE  QueueInv'
<1>1. NoEntry \in Row /\ NoEntry.status = "none" /\ NoEntry.stamp = 0
  BY DEF NoEntry, Row
<1>2. entry \in [Slots -> Row] /\ task \in [Tasks -> TaskRecord]
  BY DEF QueueInv, TypeOK
<1>3. entry' \in [Slots -> Row]
  BY <1>1, <1>2
<1>4. ASSUME NEW s \in Slots
      PROVE  /\ entry'[s].status = "none" <=> entry'[s].stamp = 0
             /\ entry'[s].stamp \in {0, entry[s].stamp}
             /\ entry'[s].status = "waiting" => entry[s].status = "waiting"
  BY <1>1 DEF QueueInv, TypeOK
<1>5. ASSUME NEW l \in Tasks, task'[l].step = "locked"
      PROVE  StillWaiting(task[l].row)'
  <2>1. StillWaiting(task[l].row) /\ task[l].row \notin D
    BY <1>5 DEF QueueInv, OffersAreDistinct, RowFree
  <2>2. PICK s \in Slots : entry[s].stamp = task[l].row /\ entry[s].status = "waiting"
    BY <2>1 DEF StillWaiting
  <2>3. entry'[s] = entry[s]
    BY <2>1, <2>2
  <2> QED BY <2>2, <2>3 DEF StillWaiting
<1> QED BY <1>2, <1>3, <1>4, <1>5, EntryStep

(* leaveWaitlist deletes one row, which no task has locked.                *)
LEMMA LeaveIsDelete ==
  ASSUME QueueInv, NEW s \in Slots, Leave(s)
  PROVE  \E D \in SUBSET Stamps :
            /\ \A n \in D : RowFree(n)
            /\ entry' = [z \in Slots |-> IF entry[z].stamp \in D THEN NoEntry ELSE entry[z]]
<1>1. PICK n \in Stamps : n = entry[s].stamp
  BY DEF Leave, QueueInv, TypeOK, Row
<1>2. \A z \in Slots : entry[z].stamp = n <=> z = s
  BY <1>1 DEF QueueInv, StampsAreUnique, Stamps
<1> PICK D \in SUBSET Stamps : D = {n}
  OBVIOUS
<1>3. entry' = [z \in Slots |-> IF entry[z].stamp \in D THEN NoEntry ELSE entry[z]]
  BY <1>2 DEF Leave, QueueInv, TypeOK
<1>4. \A m \in D : RowFree(m)
  BY <1>1 DEF Leave
<1> QED BY <1>3, <1>4

(* leaveWaitlist, and the DELETE of cancelEvent.                           *)
LEMMA LeaveStep ==
  ASSUME QueueInv, ClearDelete \/ \E s \in Slots : Leave(s)
  PROVE  QueueInv'
<1>1. RestTyped
  BY DEF QueueInv, TypeOK, RestTyped
<1>2. CASE ClearDelete
  <2>1. doomed \in SUBSET Stamps /\ RestTyped'
    BY <1>1, <1>2 DEF ClearDelete, RestTyped, saleVars, taskVars
  <2>2. /\ \A n \in doomed : RowFree(n)
        /\ UNCHANGED <<lastStamp, arrived, request, task>>
        /\ entry' = [s \in Slots |-> IF entry[s].stamp \in doomed THEN NoEntry ELSE entry[s]]
    BY <1>2 DEF ClearDelete, taskVars
  <2> QED BY <2>1, <2>2, RowsLeaveStep
<1>3. ASSUME NEW s \in Slots, Leave(s) PROVE QueueInv'
  <2>1. PICK D \in SUBSET Stamps :
           /\ \A n \in D : RowFree(n)
           /\ entry' = [z \in Slots |-> IF entry[z].stamp \in D THEN NoEntry ELSE entry[z]]
    BY <1>3, LeaveIsDelete
  <2>2. RestTyped' /\ UNCHANGED <<lastStamp, arrived, request, task>>
    BY <1>1, <1>3 DEF Leave, RestTyped, saleVars, eventVars, taskVars
  <2> QED BY <2>1, <2>2, RowsLeaveStep
<1> QED BY <1>2, <1>3

(* The sweep and the clock touch notified rows only.                       *)
LEMMA SweepStep ==
  ASSUME QueueInv, Sweep \/ Tick
  PROVE  QueueInv'
<1>1. /\ RestTyped /\ entry \in [Slots -> Row] /\ task \in [Tasks -> TaskRecord]
      /\ OfferHours \in Nat
  BY WaitlistAssumption DEF QueueInv, TypeOK, RestTyped
<1>2. UNCHANGED <<lastStamp, arrived, request, task>>
  BY DEF Sweep, Tick, taskVars
<1>3. ASSUME Sweep
      PROVE  /\ RestTyped' /\ entry' \in [Slots -> Row]
             /\ \A s \in Slots : /\ entry'[s].stamp = entry[s].stamp
                                 /\ entry'[s].status = entry[s].status
                                    \/ (entry'[s].status = "expired" /\ entry[s].status = "notified")
  <2>1. /\ entry' = [s \in Slots |->
                        IF Overdue(s) THEN [entry[s] EXCEPT !.status = "expired"] ELSE entry[s]]
        /\ UNCHANGED <<saleVars, eventVars, taskVars, lost>>
    BY <1>3 DEF Sweep
  <2>2. ASSUME NEW s \in Slots
        PROVE  /\ entry'[s] \in Row /\ entry'[s].stamp = entry[s].stamp
               /\ entry'[s].status = entry[s].status
                  \/ (entry'[s].status = "expired" /\ entry[s].status = "notified")
    BY <1>1, <2>1 DEF Row, Overdue
  <2> QED BY <1>1, <2>1, <2>2 DEF RestTyped, saleVars, eventVars, taskVars
<1>4. ASSUME Tick
      PROVE  /\ RestTyped' /\ entry' \in [Slots -> Row]
             /\ \A s \in Slots : entry'[s].stamp = entry[s].stamp /\ entry'[s].status = entry[s].status
  <2> DEFINE Aged(left) == {IF h < 0 THEN h ELSE h - 1 : h \in left}
  <2>1. ASSUME NEW left \in {{}} \cup {{h} : h \in -1 .. OfferHours}
        PROVE  Aged(left) \in {{}} \cup {{h} : h \in -1 .. OfferHours}
    <3>1. CASE left = {}
      BY <3>1
    <3>2. ASSUME NEW h \in -1 .. OfferHours, left = {h}
          PROVE  Aged(left) \in {{}} \cup {{i} : i \in -1 .. OfferHours}
      <4>1. PICK g \in -1 .. OfferHours : g = IF h < 0 THEN h ELSE h - 1
        BY <1>1
      <4>2. Aged(left) = {g}
        BY <3>2, <4>1
      <4> QED BY <4>2
    <3> QED BY <3>1, <3>2
  <2>2. entry' = [s \in Slots |-> [entry[s] EXCEPT !.left = Aged(entry[s].left)]]
    BY <1>4 DEF Tick
  <2> HIDE DEF Aged
  <2>3. ASSUME NEW s \in Slots
        PROVE  /\ entry'[s] \in Row /\ entry'[s].stamp = entry[s].stamp
               /\ entry'[s].status = entry[s].status
    BY <1>1, <2>1, <2>2 DEF Row
  <2>4. RestTyped'
    BY <1>1, <1>4 DEF Tick, RestTyped, saleVars, eventVars, taskVars
  <2> QED BY <2>2, <2>3, <2>4
<1>5. /\ RestTyped' /\ entry' \in [Slots -> Row]
      /\ \A s \in Slots :
            /\ entry'[s].stamp = entry[s].stamp
            /\ entry'[s].status = entry[s].status
               \/ (entry'[s].status = "expired" /\ entry[s].status = "notified")
  BY <1>3, <1>4
<1>6. ASSUME NEW s \in Slots
      PROVE  /\ entry'[s].status = "none" <=> entry'[s].stamp = 0
             /\ entry'[s].stamp \in {0, entry[s].stamp}
             /\ entry'[s].status = "waiting" => entry[s].status = "waiting"
  BY <1>5 DEF QueueInv, TypeOK
<1>7. ASSUME NEW l \in Tasks, task'[l].step = "locked"
      PROVE  StillWaiting(task[l].row)'
  <2>1. StillWaiting(task[l].row)
    BY <1>2, <1>7 DEF QueueInv, OffersAreDistinct
  <2>2. PICK s \in Slots : entry[s].stamp = task[l].row /\ entry[s].status = "waiting"
    BY <2>1 DEF StillWaiting
  <2>3. entry'[s].stamp = task[l].row /\ entry'[s].status = "waiting"
    BY <1>5, <2>2
  <2> QED BY <1>2, <2>3 DEF StillWaiting
<1> QED BY <1>1, <1>2, <1>5, <1>6, <1>7, EntryStep

-----------------------------------------------------------------------------

(* No row, no request and no task at the start.                            *)
LEMMA InitInv == Init => QueueInv
<1> SUFFICES ASSUME Init PROVE QueueInv
  OBVIOUS
<1>1. /\ entry = [s \in Slots |-> NoEntry] /\ lastStamp = 0 /\ arrived = [t \in Tiers |-> <<>>]
      /\ request = [r \in Requests |-> NoRequest] /\ task = [k \in Tasks |-> NoTask]
  BY DEF Init
<1>2. /\ NoEntry \in Row /\ NoEntry.status = "none" /\ NoEntry.stamp = 0
      /\ NoRequest \in RequestRecord /\ NoRequest.step = "idle"
      /\ NoTask \in TaskRecord /\ NoTask.step = "none"
  BY WaitlistAssumption DEF NoEntry, Row, NoRequest, RequestRecord, NoTask, TaskRecord
<1>3. RestTyped
  BY WaitlistAssumption DEF Init, BoxInit, RestTyped
<1>4. arrived \in [Tiers -> Seq(Stamps)] /\ \A t \in Tiers : DOMAIN arrived[t] = {}
  BY <1>1
<1>5. TypeOK
  BY <1>1, <1>2, <1>3, <1>4, WaitlistAssumption DEF TypeOK, RestTyped
<1>6. StampsAreUnique
  BY <1>1, <1>2 DEF StampsAreUnique
<1>7. OffersAreDistinct /\ NobodyPassedOver /\ SeenInOrder
  BY <1>1, <1>2 DEF OffersAreDistinct, NobodyPassedOver, SeenInOrder
<1>8. ArrivalsAreUnique
  <2>1. \A t \in Tiers : Arrived(t) = {}
    BY <1>4 DEF Arrived
  <2> QED BY <1>1, <1>2, <2>1 DEF ArrivalsAreUnique, Slots
<1> QED BY <1>5, <1>6, <1>7, <1>8 DEF QueueInv

(* Every step of Waitlist keeps QueueInv.                                  *)
LEMMA NextInv == QueueInv /\ [Next]_vars => QueueInv'
<1> SUFFICES ASSUME QueueInv, [Next]_vars PROVE QueueInv'
  OBVIOUS
<1>1. CASE UNCHANGED vars
  <2>1. UNCHANGED queue /\ RestTyped'
    BY <1>1 DEF vars, saleVars, eventVars, queueVars, taskVars, queue, QueueInv, TypeOK, RestTyped
  <2> QED BY <2>1, RestStep
<1>2. ASSUME NEW p \in Purchases, BuyTickets(p) \/ RefundTickets(p) PROVE QueueInv'
  BY <1>2, SaleStep
<1>3. ASSUME NEW r \in Requests, Join(r) \/ JoinFail(r) PROVE QueueInv'
  BY <1>3, JoinStep, JoinCommitStep DEF Join
<1>4. ASSUME NEW s \in Slots, Leave(s) PROVE QueueInv'
  BY <1>4, LeaveStep
<1>5. ASSUME NEW t \in Tiers, Enqueue(t) \/ EnqueueFail(t) PROVE QueueInv'
  BY <1>5, EnqueueStep, SaleStep
<1>6. ASSUME NEW k \in Tasks, Notify(k) \/ TaskFail(k) PROVE QueueInv'
  BY <1>6, NotifyBeginStep, NotifyLockStep, NotifyCommitStep, TaskEndsStep, TaskFailStep DEF Notify
<1>7. CASE CancelEvent \/ Clear \/ ClearFail \/ EndEvent
  BY <1>7, SaleStep, LeaveStep DEF Clear
<1>8. CASE Sweep \/ Tick
  BY <1>8, SweepStep
<1> QED BY <1>1, <1>2, <1>3, <1>4, <1>5, <1>6, <1>7, <1>8 DEF Next

(* The queue is kept in order: stamps are unique, nobody who waits is      *)
(* passed over, and no two tasks offer the same person a place, whatever   *)
(* requests, tasks, sweeps and cancellations interleave.                   *)
THEOREM QueueIsKept == Spec => []QueueInv
<1>1. QueueInv /\ UNCHANGED vars => QueueInv'
  BY NextInv
<1> QED BY <1>1, InitInv, NextInv, PTL DEF Spec

-----------------------------------------------------------------------------

(* The row of a slot has joined its tier's line, and its status says where *)
(* it stands; a row that joined and is in no slot has left.                *)
LEMMA PlaceIs ==
  QueueInv => \A t \in Tiers, n \in Stamps :
     /\ \A u \in Users : entry[<<u, t>>].stamp = n =>
           /\ n \in Arrived(t) /\ entry[<<u, t>>].status \in {"waiting", "notified", "expired"}
           /\ PlaceOf(t, n) = PlaceFor[entry[<<u, t>>].status]
     /\ (\A u \in Users : entry[<<u, t>>].stamp # n) =>
           PlaceOf(t, n) = IF n \in Arrived(t) THEN "left" ELSE "outside"
<1> SUFFICES ASSUME QueueInv, NEW t \in Tiers, NEW n \in Stamps
             PROVE  /\ \A u \in Users : entry[<<u, t>>].stamp = n =>
                          /\ n \in Arrived(t)
                          /\ entry[<<u, t>>].status \in {"waiting", "notified", "expired"}
                          /\ PlaceOf(t, n) = PlaceFor[entry[<<u, t>>].status]
                    /\ (\A u \in Users : entry[<<u, t>>].stamp # n) =>
                          PlaceOf(t, n) = IF n \in Arrived(t) THEN "left" ELSE "outside"
  OBVIOUS
<1>1. ASSUME NEW u \in Users, entry[<<u, t>>].stamp = n
      PROVE  /\ n \in Arrived(t) /\ entry[<<u, t>>].status \in {"waiting", "notified", "expired"}
             /\ PlaceOf(t, n) = PlaceFor[entry[<<u, t>>].status]
  <2>1. <<u, t>> \in Slots /\ n # 0
    BY DEF Slots, Stamps
  <2>2. entry[<<u, t>>].status # "none" /\ entry[<<u, t>>].status \in {"none", "waiting", "notified", "expired"}
    BY <1>1, <2>1 DEF QueueInv, TypeOK, Row
  <2>3. n \in Arrived(t)
    BY <1>1, <2>2 DEF QueueInv, ArrivalsAreUnique
  <2>4. ASSUME NEW v \in Users, entry[<<v, t>>].stamp = n PROVE v = u
    <3>1. <<v, t>> \in Slots
      BY DEF Slots
    <3>2. <<v, t>> = <<u, t>>
      BY <1>1, <2>1, <2>4, <3>1 DEF QueueInv, StampsAreUnique
    <3> QED BY <3>2
  <2>5. (CHOOSE v \in Users : entry[<<v, t>>].stamp = n) = u
    BY <1>1, <2>4
  <2> QED BY <1>1, <2>2, <2>3, <2>5 DEF PlaceOf
<1>2. (\A u \in Users : entry[<<u, t>>].stamp # n) =>
         PlaceOf(t, n) = IF n \in Arrived(t) THEN "left" ELSE "outside"
  BY DEF PlaceOf
<1> QED BY <1>1, <1>2

(* The same in the state after a step.                                     *)
LEMMA PlaceWillBe ==
  QueueInv' => \A t \in Tiers, n \in Stamps :
     /\ \A u \in Users : entry'[<<u, t>>].stamp = n =>
           /\ n \in Arrived(t)' /\ entry'[<<u, t>>].status \in {"waiting", "notified", "expired"}
           /\ PlaceOf(t, n)' = PlaceFor[entry'[<<u, t>>].status]
     /\ (\A u \in Users : entry'[<<u, t>>].stamp # n) =>
           PlaceOf(t, n)' = IF n \in Arrived(t)' THEN "left" ELSE "outside"
<1>1. (QueueInv => \A t \in Tiers, n \in Stamps :
        /\ \A u \in Users : entry[<<u, t>>].stamp = n =>
              /\ n \in Arrived(t) /\ entry[<<u, t>>].status \in {"waiting", "notified", "expired"}
              /\ PlaceOf(t, n) = PlaceFor[entry[<<u, t>>].status]
        /\ (\A u \in Users : entry[<<u, t>>].stamp # n) =>
              PlaceOf(t, n) = IF n \in Arrived(t) THEN "left" ELSE "outside")'
  BY PlaceIs, PTL
<1> QED BY <1>1

(* Where the rows of a slot go when the row keeps its stamp or is deleted. *)
Goes(s) == IF entry'[s].stamp = 0 THEN "left" ELSE PlaceFor[entry'[s].status]

(* Rows of a group of slots that go to one place, while the others stay.   *)
LEMMA MoveStep ==
  ASSUME QueueInv, QueueInv', UNCHANGED arrived,
         NEW G \in SUBSET Slots, NEW status,
         \A s \in G : entry'[s].stamp \in {0, entry[s].stamp} /\ entry[s].stamp # 0 /\ Goes(s) = status,
         \A s \in Slots \ G : entry'[s].stamp = entry[s].stamp /\ entry'[s].status = entry[s].status,
         NEW t \in Tiers, NEW group,
         group = {n \in Stamps : \E u \in Users : <<u, t>> \in G /\ entry[<<u, t>>].stamp = n}
  PROVE  /\ Line(t)!Move(group, status) /\ UNCHANGED arrived[t]
         /\ group = {} => UNCHANGED Line(t)!lineVars
<1>1. \A x : Arrived(x)' = Arrived(x)
  BY DEF Arrived
<1>2. ASSUME NEW n \in Stamps PROVE PlaceOf(t, n)' = IF n \in group THEN status ELSE PlaceOf(t, n)
  <2>1. n # 0
    BY DEF Stamps
  <2>2. \A u \in Users : <<u, t>> \in Slots
    BY DEF Slots
  <2>3. CASE \E u \in Users : entry[<<u, t>>].stamp = n
    <3>1. PICK u \in Users : entry[<<u, t>>].stamp = n
      BY <2>3
    <3>2. \A v \in Users : entry[<<v, t>>].stamp = n => v = u
      <4>1. \A v \in Users : entry[<<v, t>>].stamp = n => <<v, t>> = <<u, t>>
        BY <2>1, <2>2, <3>1 DEF QueueInv, StampsAreUnique
      <4> QED BY <4>1
    <3>3. n \in Arrived(t) /\ PlaceOf(t, n) = PlaceFor[entry[<<u, t>>].status]
      BY <3>1, PlaceIs
    <3>4. CASE <<u, t>> \notin G
      <4>1. n \notin group
        BY <3>2, <3>4
      <4>2. entry'[<<u, t>>].stamp = n /\ entry'[<<u, t>>].status = entry[<<u, t>>].status
        BY <2>2, <3>1, <3>4
      <4> QED BY <3>3, <4>1, <4>2, PlaceWillBe
    <3>5. CASE <<u, t>> \in G
      <4>1. n \in group /\ Goes(<<u, t>>) = status
        BY <3>1, <3>5
      <4>2. CASE entry'[<<u, t>>].stamp = n
        BY <2>1, <4>1, <4>2, PlaceWillBe DEF Goes
      <4>3. CASE entry'[<<u, t>>].stamp # n
        <5>1. entry'[<<u, t>>].stamp = 0
          BY <3>1, <3>5, <4>3
        <5>2. \A v \in Users : entry'[<<v, t>>].stamp # n
          BY <2>1, <2>2, <3>2, <5>1
        <5> QED BY <1>1, <3>3, <4>1, <5>1, <5>2, PlaceWillBe DEF Goes
      <4> QED BY <4>2, <4>3
    <3> QED BY <3>4, <3>5
  <2>4. CASE \A u \in Users : entry[<<u, t>>].stamp # n
    <3>1. n \notin group /\ \A u \in Users : entry'[<<u, t>>].stamp # n
      BY <2>1, <2>2, <2>4
    <3> QED BY <1>1, <2>4, <3>1, PlaceIs, PlaceWillBe
  <2> QED BY <2>3, <2>4
<1>3. Line(t)!Move(group, status)
  BY <1>2 DEF Line!Move
<1>4. ASSUME group = {} PROVE UNCHANGED Line(t)!lineVars
  BY <1>2, <1>4 DEF Line!lineVars
<1> QED BY <1>3, <1>4

(* One step of a tier's line, or none.                                     *)
LineStep(t) == UNCHANGED Line(t)!lineVars \/ Line(t)!LineNext

(* What holds of one tier's line after a join: JoinLine for the tier of the *)
(* row that became visible, nothing for the others.                        *)
LEMMA JoinIsJoinLine ==
  ASSUME QueueInv, QueueInv', NEW r \in Requests, JoinCommit(r), NEW x \in Tiers
  PROVE  LineStep(x)
<1>1. PICK u \in Users, t \in Tiers, n \in Stamps :
         /\ <<u, t>> \in Slots /\ entry[<<u, t>>].stamp = 0
         /\ \A z \in Slots : entry[z].stamp # n
         /\ n \notin Arrived(t)
         /\ entry'[<<u, t>>].status = "waiting" /\ entry'[<<u, t>>].stamp = n
         /\ \A z \in Slots : z # <<u, t>> => entry'[z] = entry[z]
         /\ arrived'[t] = Append(arrived[t], n)
         /\ \A y \in Tiers : y # t => arrived'[y] = arrived[y]
         /\ Arrived(t)' = Arrived(t) \cup {n}
  <2>1. PICK u \in Users, t \in Tiers, n \in Stamps : Appears(r, u, t, n)
    BY RowAppears
  <2> QED BY <2>1 DEF Appears
<1>2. ASSUME NEW m \in Stamps, NEW y \in Tiers, ~(m = n /\ y = t)
      PROVE  PlaceOf(y, m)' = PlaceOf(y, m)
  <2>1. \A v \in Users : <<v, y>> \in Slots
    BY DEF Slots
  <2>2. m \in Arrived(y)' <=> m \in Arrived(y)
    <3>1. CASE y = t
      BY <1>1, <1>2, <3>1
    <3>2. CASE y # t
      BY <1>1, <3>2 DEF Arrived
    <3> QED BY <3>1, <3>2
  <2>3. \A v \in Users : entry'[<<v, y>>].stamp = m <=> entry[<<v, y>>].stamp = m
    <3>1. m # 0
      BY DEF Stamps
    <3>2. ASSUME NEW v \in Users PROVE entry'[<<v, y>>].stamp = m <=> entry[<<v, y>>].stamp = m
      BY <1>1, <1>2, <2>1, <3>1
    <3> QED BY <3>2
  <2>4. CASE \A v \in Users : entry[<<v, y>>].stamp # m
    BY <2>2, <2>3, <2>4, PlaceIs, PlaceWillBe
  <2>5. ASSUME NEW v \in Users, entry[<<v, y>>].stamp = m
        PROVE  PlaceOf(y, m)' = PlaceOf(y, m)
    <3>1. <<v, y>> # <<u, t>>
      BY <1>1, <2>5 DEF Stamps
    <3>2. entry'[<<v, y>>] = entry[<<v, y>>]
      BY <1>1, <2>1, <3>1
    <3> QED BY <2>5, <3>2, PlaceIs, PlaceWillBe
  <2> QED BY <2>4, <2>5
<1>3. CASE x # t
  <2>1. UNCHANGED Line(x)!lineVars
    BY <1>1, <1>2, <1>3 DEF Line!lineVars
  <2> QED BY <2>1 DEF LineStep
<1>4. CASE x = t
  <2>1. PlaceOf(x, n) = "outside"
    BY <1>1, <1>4 DEF PlaceOf
  <2>2. PlaceOf(x, n)' = "waiting"
    <3>1. PlaceFor["waiting"] = "waiting"
      BY DEF PlaceFor
    <3> QED BY <1>1, <1>4, <3>1, PlaceWillBe
  <2>3. \A m \in Stamps : PlaceOf(x, m)' = IF m \in {n} THEN "waiting" ELSE PlaceOf(x, m)
    BY <1>2, <2>2
  <2>4. Line(x)!Move({n}, "waiting")
    BY <2>3 DEF Line!Move
  <2>5. Line(x)!JoinLine(n)
    BY <1>1, <1>4, <2>1, <2>4 DEF Line!JoinLine
  <2> QED BY <2>5 DEF LineStep, Line!LineNext
<1> QED BY <1>3, <1>4

(* Who waits in the line is who has a row that waits.                      *)
LEMMA WaitsIs ==
  ASSUME QueueInv, NEW t \in Tiers, NEW n \in Stamps, PlaceOf(t, n) = "waiting"
  PROVE  StillWaiting(n)
<1>1. PICK u \in Users : entry[<<u, t>>].stamp = n
  BY PlaceIs
<1>2. PlaceFor[entry[<<u, t>>].status] = "waiting" /\ entry[<<u, t>>].status \in {"waiting", "notified", "expired"}
  BY <1>1, PlaceIs
<1>3. entry[<<u, t>>].status = "waiting"
  BY <1>2 DEF PlaceFor
<1> QED BY <1>1, <1>3 DEF StillWaiting, Slots

(* An offer goes to the first of its tier's line.                          *)
LEMMA OfferIsPromote ==
  ASSUME QueueInv, QueueInv', NEW k \in Tasks, NotifyCommit(k), NEW x \in Tiers
  PROVE  LineStep(x)
<1>1. /\ task[k].step = "locked" /\ task[k].tier \in Tiers /\ InOrder(task[k])
      /\ task[k].seen \subseteq Stamps /\ StillWaiting(task[k].row)
      /\ \A m \in task[k].seen : m < task[k].row => ~StillWaiting(m)
  BY DEF NotifyCommit, QueueInv, TypeOK, TaskRecord, SeenInOrder, OffersAreDistinct, NobodyPassedOver
<1> PICK w : w = task[k]
  OBVIOUS
<1>2. PICK t \in Tiers, n \in Stamps : w.tier = t /\ w.row = n /\ n \in w.seen
  BY <1>1 DEF InOrder
<1>3. PICK u \in Users : entry[<<u, t>>].stamp = n /\ entry[<<u, t>>].status = "waiting"
  <2>1. PICK u \in Users, y \in Tiers : entry[<<u, y>>].stamp = n /\ entry[<<u, y>>].status = "waiting"
    BY <1>1, <1>2 DEF StillWaiting, Slots
  <2>2. n \in Arrived(y) /\ n \in Arrived(t)
    BY <1>1, <1>2, <2>1 DEF QueueInv, ArrivalsAreUnique, InOrder
  <2>3. y = t
    BY <2>2 DEF QueueInv, ArrivalsAreUnique
  <2> QED BY <2>1, <2>3
<1> DEFINE G == {<<u, t>>}
           group == {m \in Stamps : \E v \in Users : <<v, x>> \in G /\ entry[<<v, x>>].stamp = m}
<1>4. <<u, t>> \in Slots /\ n # 0
  BY DEF Slots, Stamps
<1>5. \A s \in Slots : entry[s].stamp = n <=> s = <<u, t>>
  BY <1>3, <1>4 DEF QueueInv, StampsAreUnique
<1>6. /\ UNCHANGED arrived
      /\ entry'[<<u, t>>].stamp = n /\ entry'[<<u, t>>].status = "notified"
      /\ \A s \in Slots : s # <<u, t>> => entry'[s] = entry[s]
  <2>1. entry' = [s \in Slots |->
                    IF entry[s].stamp = n
                    THEN [entry[s] EXCEPT !.status = "notified", !.left = Offer]
                    ELSE entry[s]]
    BY <1>2 DEF NotifyCommit
  <2>2. entry[<<u, t>>] \in Row
    BY <1>4 DEF QueueInv, TypeOK
  <2> QED BY <1>3, <1>4, <1>5, <2>1, <2>2 DEF NotifyCommit, Row
<1>7. Goes(<<u, t>>) = "offered"
  BY <1>4, <1>6 DEF Goes, PlaceFor
<1>8. /\ Line(x)!Move(group, "offered") /\ UNCHANGED arrived[x]
      /\ group = {} => UNCHANGED Line(x)!lineVars
  <2>1. G \in SUBSET Slots
    BY <1>4
  <2>2. \A s \in G : entry'[s].stamp \in {0, entry[s].stamp} /\ entry[s].stamp # 0 /\ Goes(s) = "offered"
    BY <1>3, <1>4, <1>6, <1>7
  <2>3. \A s \in Slots \ G : entry'[s].stamp = entry[s].stamp /\ entry'[s].status = entry[s].status
    BY <1>6
  <2> HIDE DEF G
  <2> QED BY <1>6, <2>1, <2>2, <2>3, MoveStep
<1>9. CASE x # t
  <2>1. group = {}
    BY <1>9
  <2> QED BY <1>8, <2>1 DEF LineStep
<1>10. CASE x = t
  <2>1. group = {n}
    BY <1>3, <1>10
  <2> HIDE DEF group
  <2>2. PlaceOf(t, n) = "waiting"
    BY <1>3, PlaceIs DEF PlaceFor
  <2>3. ASSUME NEW m \in Stamps, PlaceOf(t, m) = "waiting", m < n,
               NEW i \in DOMAIN arrived[t], NEW j \in DOMAIN arrived[t],
               i < j, arrived[t][i] = m, arrived[t][j] = n
        PROVE  FALSE
    <3>1. StillWaiting(m)
      BY <2>3, WaitsIs
    <3>2. InOrder(w)
      BY <1>1
    <3>3. m \in w.seen
      BY <1>2, <2>3, <3>1, <3>2 DEF InOrder
    <3> QED BY <1>1, <1>2, <2>3, <3>1, <3>3
  <2>4. Line(t)!Move({n}, "offered") /\ UNCHANGED arrived[t]
    BY <1>8, <1>10, <2>1
  <2>5. \A m \in Line(t)!With("waiting") : ~Line(t)!Precedes(m, n)
    BY <2>3 DEF Line!With, Line!Precedes
  <2>6. Line(t)!Promote(n)
    BY <2>2, <2>4, <2>5 DEF Line!Promote
  <2> QED BY <1>10, <2>6 DEF LineStep, Line!LineNext
<1> QED BY <1>9, <1>10

(* Rows that are deleted are members who depart.                           *)
LEMMA DepartStep ==
  ASSUME QueueInv, QueueInv', NEW D \in SUBSET Stamps, UNCHANGED arrived,
         entry' = [s \in Slots |-> IF entry[s].stamp \in D THEN NoEntry ELSE entry[s]],
         NEW t \in Tiers
  PROVE  LineStep(t)
<1> DEFINE G == {s \in Slots : entry[s].stamp \in D}
           group == {n \in Stamps : \E u \in Users : <<u, t>> \in G /\ entry[<<u, t>>].stamp = n}
<1>1. \A s \in G : entry'[s].stamp \in {0, entry[s].stamp} /\ entry[s].stamp # 0 /\ Goes(s) = "left"
  BY DEF Goes, NoEntry, Stamps
<1>2. \A s \in Slots \ G : entry'[s].stamp = entry[s].stamp /\ entry'[s].status = entry[s].status
  OBVIOUS
<1>3. G \in SUBSET Slots
  OBVIOUS
<1>4. \A n \in group : \E u \in Users : entry[<<u, t>>].stamp = n
  OBVIOUS
<1> HIDE DEF G
<1>5. /\ Line(t)!Move(group, "left") /\ UNCHANGED arrived[t]
      /\ group = {} => UNCHANGED Line(t)!lineVars
  BY <1>1, <1>2, <1>3, MoveStep
<1>6. group \in SUBSET Stamps
  OBVIOUS
<1> HIDE DEF group
<1>7. ASSUME NEW n \in group PROVE n \in Arrived(t) /\ PlaceOf(t, n) # "left"
  <2>1. PICK u \in Users : entry[<<u, t>>].stamp = n
    BY <1>4, <1>7
  <2> QED BY <1>6, <1>7, <2>1, PlaceIs DEF PlaceFor
<1>8. group \subseteq Line(t)!Joined \ Line(t)!With("left")
  BY <1>6, <1>7 DEF Line!Joined, Line!With, Arrived
<1>9. group # {} => Line(t)!Depart(group)
  BY <1>5, <1>8 DEF Line!Depart
<1> QED BY <1>5, <1>6, <1>9 DEF LineStep, Line!LineNext

(* leaveWaitlist and the DELETE of cancelEvent: members depart.            *)
LEMMA LeaveIsDepart ==
  ASSUME QueueInv, QueueInv', ClearDelete \/ \E s \in Slots : Leave(s), NEW t \in Tiers
  PROVE  LineStep(t)
<1>1. CASE ClearDelete
  <2>1. doomed \in SUBSET Stamps /\ UNCHANGED arrived
        /\ entry' = [s \in Slots |-> IF entry[s].stamp \in doomed THEN NoEntry ELSE entry[s]]
    BY <1>1 DEF ClearDelete, QueueInv, TypeOK
  <2> QED BY <2>1, DepartStep
<1>2. ASSUME NEW s \in Slots, Leave(s) PROVE LineStep(t)
  <2>1. PICK D \in SUBSET Stamps : entry' = [z \in Slots |-> IF entry[z].stamp \in D THEN NoEntry ELSE entry[z]]
    BY <1>2, LeaveIsDelete
  <2>2. UNCHANGED arrived
    BY <1>2 DEF Leave
  <2> QED BY <2>1, <2>2, DepartStep
<1> QED BY <1>1, <1>2

(* A sweep lets the overdue offers of each tier lapse together.            *)
LEMMA SweepIsLapse ==
  ASSUME QueueInv, QueueInv', Sweep, NEW t \in Tiers
  PROVE  LineStep(t)
<1> DEFINE G == {s \in Slots : Overdue(s)}
           group == {n \in Stamps : \E u \in Users : <<u, t>> \in G /\ entry[<<u, t>>].stamp = n}
<1>1. \A s \in Slots : entry[s] \in Row /\ (entry[s].status = "none" <=> entry[s].stamp = 0)
  BY DEF QueueInv, TypeOK
<1>2. \A s \in G : /\ entry'[s].stamp = entry[s].stamp /\ entry'[s].status = "expired"
                  /\ entry[s].status = "notified" /\ entry[s].stamp # 0
  BY <1>1 DEF Sweep, Overdue, Row
<1>3. \A s \in G : entry'[s].stamp \in {0, entry[s].stamp} /\ entry[s].stamp # 0 /\ Goes(s) = "lapsed"
  BY <1>2 DEF Goes, PlaceFor
<1>4. \A s \in Slots \ G : entry'[s].stamp = entry[s].stamp /\ entry'[s].status = entry[s].status
  BY DEF Sweep
<1>5. G \in SUBSET Slots /\ UNCHANGED arrived
  BY DEF Sweep
<1>6. \A n \in group : \E u \in Users : entry[<<u, t>>].stamp = n /\ entry[<<u, t>>].status = "notified"
  BY <1>2
<1> HIDE DEF G
<1>7. /\ Line(t)!Move(group, "lapsed") /\ UNCHANGED arrived[t]
      /\ group = {} => UNCHANGED Line(t)!lineVars
  BY <1>3, <1>4, <1>5, MoveStep
<1>8. group \in SUBSET Stamps
  OBVIOUS
<1> HIDE DEF group
<1>9. ASSUME NEW n \in group PROVE PlaceOf(t, n) = "offered"
  <2>1. PICK u \in Users : entry[<<u, t>>].stamp = n /\ entry[<<u, t>>].status = "notified"
    BY <1>6, <1>9
  <2> QED BY <1>8, <1>9, <2>1, PlaceIs DEF PlaceFor
<1>10. group \subseteq Line(t)!With("offered")
  BY <1>8, <1>9 DEF Line!With
<1>11. group # {} => Line(t)!LapseAll(group)
  BY <1>7, <1>10 DEF Line!LapseAll
<1> QED BY <1>7, <1>8, <1>11 DEF LineStep, Line!LineNext

(* The clock moves nobody.                                                 *)
LEMMA TickIsNothing ==
  ASSUME QueueInv, QueueInv', Tick, NEW t \in Tiers
  PROVE  LineStep(t)
<1> DEFINE G == {s \in Slots : FALSE}
           group == {n \in Stamps : \E u \in Users : <<u, t>> \in G /\ entry[<<u, t>>].stamp = n}
<1>1. \A s \in Slots : entry'[s].stamp = entry[s].stamp /\ entry'[s].status = entry[s].status
  BY DEF Tick, QueueInv, TypeOK, Row
<1>2. UNCHANGED arrived /\ G \in SUBSET Slots /\ G = {} /\ group = {}
  BY DEF Tick
<1> HIDE DEF G
<1>3. group = {} => UNCHANGED Line(t)!lineVars
  BY <1>1, <1>2, MoveStep
<1> QED BY <1>2, <1>3 DEF LineStep

(* Every step that writes a row or makes one visible is, for each tier, a  *)
(* step of its line or none.                                               *)
LEMMA LineSteps ==
  QueueInv /\ QueueInv' /\ [Next]_vars => UNCHANGED <<entry, arrived>> \/ \A t \in Tiers : LineStep(t)
<1> SUFFICES ASSUME QueueInv, QueueInv', [Next]_vars
             PROVE  UNCHANGED <<entry, arrived>> \/ \A t \in Tiers : LineStep(t)
  OBVIOUS
<1>1. CASE UNCHANGED vars
  BY <1>1 DEF vars, queueVars
<1>2. ASSUME NEW p \in Purchases, BuyTickets(p) \/ RefundTickets(p) PROVE UNCHANGED <<entry, arrived>>
  BY <1>2 DEF BuyTickets, RefundTickets, queueVars
<1>3. ASSUME NEW r \in Requests, Join(r) \/ JoinFail(r)
      PROVE  UNCHANGED <<entry, arrived>> \/ \A t \in Tiers : LineStep(t)
  <2>1. CASE JoinCommit(r)
    BY <2>1, JoinIsJoinLine
  <2>2. CASE ~JoinCommit(r)
    BY <1>3, <2>2 DEF Join, JoinBegin, JoinReadTier, JoinReadPurchase, JoinInsert, JoinFail, queueVars
  <2> QED BY <2>1, <2>2
<1>4. ASSUME NEW s \in Slots, Leave(s) PROVE \A t \in Tiers : LineStep(t)
  BY <1>4, LeaveIsDepart
<1>5. ASSUME NEW t \in Tiers, Enqueue(t) \/ EnqueueFail(t) PROVE UNCHANGED <<entry, arrived>>
  BY <1>5 DEF Enqueue, EnqueueFail, queueVars
<1>6. ASSUME NEW k \in Tasks, Notify(k) \/ TaskFail(k)
      PROVE  UNCHANGED <<entry, arrived>> \/ \A t \in Tiers : LineStep(t)
  <2>1. CASE NotifyCommit(k)
    BY <2>1, OfferIsPromote
  <2>2. CASE ~NotifyCommit(k)
    BY <1>6, <2>2 DEF Notify, NotifyBegin, NotifyLock, NotifyNobody, SendMail, TaskDone, TaskFail, queueVars
  <2> QED BY <2>1, <2>2
<1>7. CASE CancelEvent \/ Clear \/ ClearFail \/ EndEvent
  <2>1. CASE ClearDelete
    BY <2>1, LeaveIsDepart
  <2>2. CASE ~ClearDelete
    BY <1>7, <2>2 DEF Clear, CancelEvent, VoidPurchases, ClearSelect, ClearFail, EndEvent, queueVars
  <2> QED BY <2>1, <2>2
<1>8. CASE Sweep \/ Tick
  BY <1>8, SweepIsLapse, TickIsNothing
<1> QED BY <1>1, <1>2, <1>3, <1>4, <1>5, <1>6, <1>7, <1>8 DEF Next

(* Nobody has joined any line at the start.                                *)
LEMMA LineStarts == Init => \A t \in Tiers : Line(t)!LineInit
<1> SUFFICES ASSUME Init, NEW t \in Tiers PROVE Line(t)!LineInit
  OBVIOUS
<1>1. arrived[t] = <<>> /\ Arrived(t) = {}
  BY DEF Init, Arrived
<1>2. \A n \in Stamps : PlaceOf(t, n) = "outside"
  BY <1>1 DEF PlaceOf
<1> QED BY <1>1, <1>2 DEF Line!LineInit

(* Whatever requests, tasks, sweeps and cancellations interleave, the rows *)
(* of each tier behave as one waiting line: promoted one at a time and in  *)
(* the order of joining, offered once, and never back once they have left. *)
THEOREM QueueIsALine == Spec => ImplementsLine
<1>1. QueueInv /\ QueueInv' /\ [Next]_vars =>
        [\/ UNCHANGED <<entry, arrived>>
         \/ \A t \in Tiers : UNCHANGED Line(t)!lineVars \/ Line(t)!LineNext]_vars
  BY LineSteps DEF LineStep
<1> QED BY <1>1, QueueIsKept, LineStarts, PTL DEF Spec, ImplementsLine

=============================================================================
