------------------------------- MODULE Waitlist -------------------------------
(***************************************************************************)
(* The waitlist of sold-out tiers: joining and leaving (waitlist.go of     *)
(* cmd/server), the promotion tasks an asynq worker runs, the periodic     *)
(* sweep of lapsed offers and the clearing of a cancelled event's list.    *)
(*                                                                         *)
(* Sales and refunds are the single steps of BoxOffice, which Purchasing   *)
(* implements.  A row of waitlist_entries is named by its created_at, a    *)
(* stamp taken when the INSERT runs and visible when it commits.           *)
(***************************************************************************)
EXTENDS BoxOffice, FiniteSets, Sequences

CONSTANTS
    Users,          \* attendees who may queue, none of them the organizer
    BuyerOf,        \* purchases.user_id
    Requests,       \* calls of joinWaitlist under way
    Tasks,          \* bound on the notify tasks alive at a time
    MaxRetry,       \* retries asynq grants a task before it archives it
    OfferHours,     \* hours an offer stands, 24 in the code
    MaxStamp,       \* bound on the rows ever inserted
    Nothing         \* the slot or tier of a request or task that is idle

Slots  == Users \X Tiers            \* UNIQUE (user_id, tier_id)
Stamps == 1 .. MaxStamp

ASSUME WaitlistAssumption ==
    /\ TierOf \in [Purchases -> Tiers]
    /\ Places \in [Purchases -> Nat]
    /\ Capacity \in [Tiers -> Nat]
    /\ IsFiniteSet(Users) /\ IsFiniteSet(Tiers)
    /\ MaxRetry \in Nat
    /\ OfferHours \in Nat \ {0}
    /\ MaxStamp \in Nat

VARIABLES
    event,          \* events.status: "open" (published or sold_out) or over
    organizer,      \* how far cancelEvent has got
    doomed,         \* the rows the DELETE of DeleteByEvent has selected
    entry,          \* waitlist_entries, by slot
    lastStamp,      \* created_at of the row inserted last
    arrived,        \* history: by tier, the rows in the order they became visible in
    request,        \* calls of joinWaitlist
    owed,           \* by tier, promotions still to be enqueued by a handler
    task,           \* notify tasks, queued or running
    mailed,         \* rows whose owner has been sent an offer
    lost            \* history: a promotion was lost for good, and logged

saleVars  == <<stock, standing, closed, inside>>
eventVars == <<event, organizer, doomed>>
queueVars == <<entry, lastStamp, arrived>>
taskVars  == <<owed, task, mailed>>
vars      == <<saleVars, eventVars, queueVars, request, taskVars, lost>>

-------------------------------------------------------------------------------
(* Rows, requests and tasks *)

NoEntry   == [status |-> "none", stamp |-> 0, left |-> {}]
NoRequest == [step |-> "idle", slot |-> Nothing, stamp |-> 0]
NoTask    == [step |-> "none", tier |-> Nothing, seen |-> {}, todo |-> {}, row |-> 0, retried |-> 0]

(* left is expires_at, in hours from now: {} is NULL, below 0 is past. *)
Row == [status : {"none", "waiting", "notified", "expired"},
        stamp : {0} \cup Stamps,
        left : {{}} \cup {{h} : h \in -1 .. OfferHours}]

WaitingRows(t) ==
    {n \in Stamps : \E u \in Users :
         entry[<<u, t>>].stamp = n /\ entry[<<u, t>>].status = "waiting"}

StillWaiting(n) ==
    \E s \in Slots : entry[s].stamp = n /\ entry[s].status = "waiting"

(* FOR UPDATE OF w and the UPDATE after it hold the row until the commit. *)
RowFree_unlocked(n) == TRUE     \* without FOR UPDATE

RowFree(n) == \A k \in Tasks : ~(task[k].step = "locked" /\ task[k].row = n)

Holds(u, t) == \E p \in standing : BuyerOf[p] = u /\ TierOf[p] = t

-------------------------------------------------------------------------------
(* The sale around the waitlist: none of it reads or writes an entry *)

BuyTickets(p) ==
    /\ event = "open"
    /\ Sell(p)
    /\ UNCHANGED <<eventVars, queueVars, request, taskVars, lost>>

(* cancelPurchase: wasSoldOut is read before the places come back. *)
RefundTickets(p) ==
    /\ event # "ended"
    /\ Refund(p)
    /\ owed' = IF stock[TierOf[p]] = 0 THEN [owed EXCEPT ![TierOf[p]] = @ + 1] ELSE owed
    /\ UNCHANGED <<eventVars, queueVars, request, task, mailed, lost>>

EndEvent ==
    /\ event = "open"
    /\ event' = "ended"
    /\ UNCHANGED <<saleVars, organizer, doomed, queueVars, request, taskVars, lost>>

-------------------------------------------------------------------------------
(* joinWaitlist: three reads, then the INSERT *)

AskFor(r, s, from, to) ==
    /\ request[r].step = from
    /\ request' = [request EXCEPT ![r] = [step |-> to, slot |-> s, stamp |-> 0]]

Refuse(r, from) ==
    /\ request[r].step = from
    /\ request' = [request EXCEPT ![r] = NoRequest]

(* getPublicEvent hides a cancelled event, an ended one is refused. *)
JoinBegin(r, s) ==
    /\ event = "open"
    /\ AskFor(r, s, "idle", "tier")
    /\ UNCHANGED <<saleVars, eventVars, queueVars, taskVars, lost>>

JoinReadTier(r) ==
    LET s == request[r].slot
    IN  /\ \/ AskFor(r, s, "tier", "purchase") /\ stock[s[2]] = 0
           \/ Refuse(r, "tier") /\ stock[s[2]] # 0
        /\ UNCHANGED <<saleVars, eventVars, queueVars, taskVars, lost>>

JoinReadPurchase(r) ==
    LET s == request[r].slot
    IN  /\ \/ AskFor(r, s, "purchase", "insert") /\ ~Holds(s[1], s[2])
           \/ Refuse(r, "purchase") /\ Holds(s[1], s[2])
        /\ UNCHANGED <<saleVars, eventVars, queueVars, taskVars, lost>>

(* The index makes a second INSERT for the slot wait for the first. *)
Inserting(s) == \E r \in Requests : request[r].step = "commit" /\ request[r].slot = s

JoinInsert(r) ==
    LET s == request[r].slot
    IN  /\ request[r].step = "insert"
        /\ ~Inserting(s)
        /\ \/ /\ entry[s].status = "none"
              /\ lastStamp < MaxStamp
              /\ lastStamp' = lastStamp + 1
              /\ request' = [request EXCEPT ![r].step = "commit", ![r].stamp = lastStamp + 1]
           \/ /\ entry[s].status # "none"
              /\ Refuse(r, "insert")
              /\ UNCHANGED lastStamp
        /\ UNCHANGED <<saleVars, eventVars, entry, arrived, taskVars, lost>>

JoinCommit(r) ==
    /\ Refuse(r, "commit")
    /\ entry' = [entry EXCEPT ![request[r].slot] =
                    [status |-> "waiting", stamp |-> request[r].stamp, left |-> {}]]
    /\ arrived' = [arrived EXCEPT ![request[r].slot[2]] = Append(@, request[r].stamp)]
    /\ UNCHANGED <<saleVars, eventVars, lastStamp, taskVars, lost>>

(* A query fails, times out or the server stops. *)
JoinFail(r) ==
    /\ \E from \in {"tier", "purchase", "insert", "commit"} : Refuse(r, from)
    /\ UNCHANGED <<saleVars, eventVars, queueVars, taskVars, lost>>

(* leaveWaitlist: one DELETE, which waits for a row a task has locked.  An *)
(* offer that is given up is not passed on.                                *)
Leave(s) ==
    /\ entry[s].status # "none"
    /\ RowFree(entry[s].stamp)
    /\ entry' = [entry EXCEPT ![s] = NoEntry]
    /\ UNCHANGED <<saleVars, eventVars, lastStamp, arrived, request, taskVars, lost>>

-------------------------------------------------------------------------------
(* NewNotifyWaitlistEntryTask and Enqueue, in cancelPurchase *)

Enqueue(t) ==
    /\ owed[t] > 0
    /\ owed' = [owed EXCEPT ![t] = @ - 1]
    /\ \E k \in Tasks :
          /\ task[k] = NoTask
          /\ task' = [task EXCEPT ![k] = [NoTask EXCEPT !.step = "queued", !.tier = t]]
    /\ UNCHANGED <<saleVars, eventVars, queueVars, request, mailed, lost>>

(* Redis refuses the task, which is logged, or the server stops. *)
EnqueueFail(t) ==
    /\ owed[t] > 0
    /\ owed' = [owed EXCEPT ![t] = @ - 1]
    /\ lost' = TRUE
    /\ UNCHANGED <<saleVars, eventVars, queueVars, request, task, mailed>>

(* NotifyNextWaiting: the SELECT sees the rows that wait when it starts... *)
NotifyBegin(k) ==
    /\ task[k].step = "queued"
    /\ LET rows == WaitingRows(task[k].tier)
       IN  task' = [task EXCEPT ![k].step = "select", ![k].seen = rows, ![k].todo = rows]
    /\ UNCHANGED <<saleVars, eventVars, queueVars, request, owed, mailed, lost>>

(* newest first *)
NextInLine_newest(rows) == CHOOSE n \in rows : \A m \in rows : m <= n

(* ORDER BY w.created_at ASC *)
NextInLine(rows) == CHOOSE n \in rows : \A m \in rows : n <= m

(* ... locks them one by one, oldest first, and takes the first that still *)
(* waits once its lock is granted.                                         *)
NotifyLock(k) ==
    LET n == NextInLine(task[k].todo)
    IN  /\ task[k].step = "select"
        /\ task[k].todo # {}
        /\ RowFree(n)
        /\ task' = IF StillWaiting(n)
                   THEN [task EXCEPT ![k].step = "locked", ![k].row = n]
                   ELSE [task EXCEPT ![k].todo = @ \ {n}]
        /\ UNCHANGED <<saleVars, eventVars, queueVars, request, owed, mailed, lost>>

(* ErrNotFound: SkipRetry archives the task. *)
NotifyNobody(k) ==
    /\ task[k].step = "select"
    /\ task[k].todo = {}
    /\ task' = [task EXCEPT ![k] = NoTask]
    /\ UNCHANGED <<saleVars, eventVars, queueVars, request, owed, mailed, lost>>

Offer_unset == {}                \* expires_at is left NULL

Offer == {OfferHours}

NotifyCommit(k) ==
    /\ task[k].step = "locked"
    /\ entry' = [s \in Slots |->
                    IF entry[s].stamp = task[k].row
                    THEN [entry[s] EXCEPT !.status = "notified", !.left = Offer]
                    ELSE entry[s]]
    /\ task' = [task EXCEPT ![k].step = "mail"]
    /\ UNCHANGED <<saleVars, eventVars, lastStamp, arrived, request, owed, mailed, lost>>

SendMail(k) ==
    /\ task[k].step = "mail"
    /\ mailed' = mailed \cup {task[k].row}
    /\ task' = [task EXCEPT ![k].step = "ack"]
    /\ UNCHANGED <<saleVars, eventVars, queueVars, request, owed, lost>>

TaskDone(k) ==
    /\ task[k].step = "ack"
    /\ task' = [task EXCEPT ![k] = NoTask]
    /\ UNCHANGED <<saleVars, eventVars, queueVars, request, owed, mailed, lost>>

(* every error is marked SkipRetry *)
Retry_skipped(w) == NoTask

(* asynq runs the task again, from its start, or archives it in the end.   *)
Retry(w) ==
    IF w.retried < MaxRetry
    THEN [NoTask EXCEPT !.step = "queued", !.tier = w.tier, !.retried = w.retried + 1]
    ELSE NoTask

(* The handler returns an error (the database's or the mailer's) or the    *)
(* worker stops.                                                           *)
TaskFail(k) ==
    /\ task[k].step \in {"select", "locked", "mail", "ack"}
    /\ task' = [task EXCEPT ![k] = Retry(task[k])]
    /\ lost' = (lost \/ /\ task[k].retried = MaxRetry
                        /\ task[k].step \in {"select", "locked"})
    /\ UNCHANGED <<saleVars, eventVars, queueVars, request, owed, mailed>>

-------------------------------------------------------------------------------
(* HandleExpireWaitlistReservations, every five minutes, and the clock *)

Overdue(s) == entry[s].status = "notified" /\ \E h \in entry[s].left : h < 0

(* The UPDATE commits.  Collecting what it returns then fails: RowToAddrOf *)
(* hands the eight columns of a row to one destination, which pgx refuses. *)
(* The handler returns before it has enqueued anything, and the retry      *)
(* finds no offer left to lapse.                                           *)
Sweep ==
    /\ \E s \in Slots : Overdue(s)
    /\ entry' = [s \in Slots |->
                    IF Overdue(s) THEN [entry[s] EXCEPT !.status = "expired"] ELSE entry[s]]
    /\ UNCHANGED <<saleVars, eventVars, lastStamp, arrived, request, taskVars, lost>>

Tick ==
    /\ \E s \in Slots : entry[s].status = "notified" /\ ~Overdue(s)
    /\ entry' = [s \in Slots |->
                    [entry[s] EXCEPT !.left = {IF h < 0 THEN h ELSE h - 1 : h \in @}]]
    /\ UNCHANGED <<saleVars, eventVars, lastStamp, arrived, request, taskVars, lost>>

-------------------------------------------------------------------------------
(* cancelEvent: the event, then its purchases, then its waitlist *)

CancelEvent ==
    /\ event = "open"
    /\ event' = "cancelled"
    /\ organizer' = "purchases"
    /\ UNCHANGED <<saleVars, doomed, queueVars, request, taskVars, lost>>

VoidPurchases ==
    /\ organizer = "purchases"
    /\ organizer' = "select"
    /\ \/ VoidAll(standing)
       \/ standing = {} /\ UNCHANGED saleVars
    /\ UNCHANGED <<event, doomed, queueVars, request, taskVars, lost>>

ClearSelect ==
    /\ organizer = "select"
    /\ organizer' = "delete"
    /\ doomed' = {entry[s].stamp : s \in {s \in Slots : entry[s].status # "none"}}
    /\ UNCHANGED <<saleVars, event, queueVars, request, taskVars, lost>>

ClearDelete ==
    /\ organizer = "delete"
    /\ \A n \in doomed : RowFree(n)
    /\ entry' = [s \in Slots |-> IF entry[s].stamp \in doomed THEN NoEntry ELSE entry[s]]
    /\ organizer' = "done"
    /\ doomed' = {}
    /\ UNCHANGED <<saleVars, event, lastStamp, arrived, request, taskVars, lost>>

(* An error of either statement is logged and the handler goes on. *)
ClearFail ==
    /\ \/ organizer = "purchases" /\ organizer' = "select"
       \/ organizer \in {"select", "delete"} /\ organizer' = "done"
    /\ doomed' = {}
    /\ UNCHANGED <<saleVars, event, queueVars, request, taskVars, lost>>

-------------------------------------------------------------------------------
Init ==
    /\ BoxInit
    /\ event = "open"
    /\ organizer = "idle"
    /\ doomed = {}
    /\ entry = [s \in Slots |-> NoEntry]
    /\ lastStamp = 0
    /\ arrived = [t \in Tiers |-> <<>>]
    /\ request = [r \in Requests |-> NoRequest]
    /\ owed = [t \in Tiers |-> 0]
    /\ task = [k \in Tasks |-> NoTask]
    /\ mailed = {}
    /\ lost = FALSE

Join(r) ==
    \/ \E s \in Slots : JoinBegin(r, s)
    \/ JoinReadTier(r)
    \/ JoinReadPurchase(r)
    \/ JoinInsert(r)
    \/ JoinCommit(r)

Notify(k) ==
    \/ NotifyBegin(k)
    \/ NotifyLock(k)
    \/ NotifyNobody(k)
    \/ NotifyCommit(k)
    \/ SendMail(k)
    \/ TaskDone(k)

Clear == VoidPurchases \/ ClearSelect \/ ClearDelete

Next ==
    \/ \E p \in Purchases : BuyTickets(p) \/ RefundTickets(p)
    \/ \E r \in Requests : Join(r) \/ JoinFail(r)
    \/ \E s \in Slots : Leave(s)
    \/ \E t \in Tiers : Enqueue(t) \/ EnqueueFail(t)
    \/ \E k \in Tasks : Notify(k) \/ TaskFail(k)
    \/ CancelEvent \/ Clear \/ ClearFail \/ EndEvent
    \/ Sweep \/ Tick

Spec == Init /\ [][Next]_vars

(* The clock runs, the scheduler fires every five minutes, asynq runs what *)
(* is queued, and the mailer either accepts a message or fails: nothing is *)
(* assumed of users, and nothing says that a step succeeds rather than     *)
(* fails.                                                                  *)
FairSpec ==
    /\ Spec
    /\ WF_vars(Tick)
    /\ WF_vars(Sweep)
    /\ \A t \in Tiers : WF_vars(Enqueue(t) \/ EnqueueFail(t))
    /\ \A k \in Tasks : WF_vars(Notify(k) \/ TaskFail(k))

-------------------------------------------------------------------------------
(* Safety *)

RequestRecord == [step : {"idle", "tier", "purchase", "insert", "commit"},
                  slot : Slots \cup {Nothing}, stamp : {0} \cup Stamps]
TaskRecord == [step : {"none", "queued", "select", "locked", "mail", "ack"},
               tier : Tiers \cup {Nothing}, seen : SUBSET Stamps, todo : SUBSET Stamps,
               row : {0} \cup Stamps, retried : 0 .. MaxRetry]

(* Every variable has its type; a slot without a row has no stamp, a       *)
(* request or task under way knows its slot or tier.                       *)
TypeOK ==
    /\ stock \in [Tiers -> Nat]
    /\ standing \subseteq Purchases
    /\ closed \subseteq Purchases
    /\ event \in {"open", "cancelled", "ended"}
    /\ organizer \in {"idle", "purchases", "select", "delete", "done"}
    /\ doomed \subseteq Stamps
    /\ entry \in [Slots -> Row]
    /\ \A s \in Slots : entry[s].status = "none" <=> entry[s].stamp = 0
    /\ lastStamp \in 0 .. MaxStamp
    /\ arrived \in [Tiers -> Seq(Stamps)]
    /\ request \in [Requests -> RequestRecord]
    /\ \A r \in Requests : request[r].step # "idle" => request[r].slot \in Slots
    /\ owed \in [Tiers -> Nat]
    /\ task \in [Tasks -> TaskRecord]
    /\ \A k \in Tasks : task[k].step # "none" => task[k].tier \in Tiers
    /\ mailed \subseteq Stamps
    /\ lost \in BOOLEAN

(* Nobody is passed over: a task that has turned to a later row, or found  *)
(* no row at all, has made sure that the older rows it saw wait no more,   *)
(* whatever other tasks, leavers and sweeps did meanwhile.                 *)
NobodyPassedOver ==
    \A k \in Tasks :
        /\ task[k].step = "select" =>
              \A n \in task[k].seen \ task[k].todo : ~StillWaiting(n)
        /\ task[k].step = "locked" =>
              \A n \in task[k].seen : n < task[k].row => ~StillWaiting(n)

(* An offer in the making is made to somebody who waits, and no two tasks  *)
(* make one to the same person.                                            *)
OffersAreDistinct ==
    \A k, l \in Tasks :
        /\ task[k].step = "locked" => StillWaiting(task[k].row)
        /\ task[k].step = "locked" /\ task[l].step = "locked" /\ task[k].row = task[l].row
              => k = l

(* A stamp names one row, committed or not. *)
StampsAreUnique ==
    /\ \A s, z \in Slots : entry[s].stamp = entry[z].stamp /\ entry[s].stamp # 0 => s = z
    /\ \A s \in Slots : entry[s].stamp <= lastStamp
    /\ \A r \in Requests : request[r].step = "commit" =>
           /\ request[r].stamp \in 1 .. lastStamp
           /\ entry[request[r].slot].status = "none"
           /\ \A s \in Slots : entry[s].stamp # request[r].stamp
           /\ \A q \in Requests : request[q].step = "commit" /\ q # r =>
                 request[q].stamp # request[r].stamp /\ request[q].slot # request[r].slot

Arrived(t) == {arrived[t][i] : i \in DOMAIN arrived[t]}

(* A row becomes visible once, and in its tier.                            *)
ArrivalsAreUnique ==
    /\ \A t \in Tiers : Arrived(t) \subseteq 1 .. lastStamp
    /\ \A t, x \in Tiers : Arrived(t) \cap Arrived(x) # {} => t = x
    /\ \A u \in Users, t \in Tiers :
           entry[<<u, t>>].status # "none" => entry[<<u, t>>].stamp \in Arrived(t)
    /\ \A r \in Requests, t \in Tiers :
           request[r].step = "commit" => request[r].stamp \notin Arrived(t)

(* A task has seen visible rows of its tier only, and with any of them all *)
(* those that became visible earlier and wait still.                       *)
InOrder(w) ==
    /\ w.todo \subseteq w.seen
    /\ w.step \in {"locked", "mail", "ack"} => w.row \in w.seen
    /\ w.seen \subseteq Arrived(w.tier)
    /\ \A i, j \in DOMAIN arrived[w.tier] :
           i < j /\ arrived[w.tier][j] \in w.seen /\ StillWaiting(arrived[w.tier][i])
              => arrived[w.tier][i] \in w.seen

SeenInOrder == \A k \in Tasks : task[k].step # "none" => InOrder(task[k])

(* Inductive.                                                              *)
QueueInv ==
    /\ TypeOK
    /\ StampsAreUnique
    /\ OffersAreDistinct
    /\ NobodyPassedOver
    /\ ArrivalsAreUnique
    /\ SeenInOrder

-------------------------------------------------------------------------------
(* The line that the rows and tasks implement *)

(* What has become of a row of a tier; one that is no more has left.       *)
PlaceFor == [waiting |-> "waiting", notified |-> "offered", expired |-> "lapsed"]

PlaceOf(t, n) ==
    IF n \notin Arrived(t) THEN "outside"
    ELSE IF \A u \in Users : entry[<<u, t>>].stamp # n THEN "left"
    ELSE PlaceFor[entry[<<CHOOSE u \in Users : entry[<<u, t>>].stamp = n, t>>].status]

Line(t) == INSTANCE WaitingLine WITH
    Members <- Stamps,
    line <- arrived[t],
    place <- [n \in Stamps |-> PlaceOf(t, n)]

(* Each tier's rows, requests, tasks, sweeps and cancellations implement   *)
(* one waiting line: in order, one promotion per entry, no way back.       *)
ImplementsLine ==
    /\ \A t \in Tiers : Line(t)!LineInit
    /\ [][\/ UNCHANGED <<entry, arrived>>     \* and with them every line
          \/ \A t \in Tiers : UNCHANGED Line(t)!lineVars \/ Line(t)!LineNext]_vars

-------------------------------------------------------------------------------
(* Liveness *)

(* Every offer that is made lapses, or its owner leaves the list.          *)
OffersLapse ==
    \A s \in Slots : entry[s].status = "notified" ~> entry[s].status # "notified"

(* Who no longer waits: they were promoted, or have left.                  *)
Served(t) == Arrived(t) \ WaitingRows(t)

(* A promotion that a refund owes to a tier reaches the line, whatever     *)
(* fails on the way and is tried again, and whoever joins and leaves       *)
(* meanwhile: somebody who waited, or a later arrival, waits no more,      *)
(* unless Redis refuses the task or its last retry fails.                  *)
PromotionsArrive ==
    \A t \in Tiers : \A rows \in SUBSET Stamps :
        owed[t] > 0 /\ WaitingRows(t) # {} /\ Served(t) = rows
        ~> Served(t) # rows \/ lost \/ event = "cancelled"

-------------------------------------------------------------------------------
(* What PLAN.md and the comments say and the code does not keep *)

TaskAlive(t) == \E k \in Tasks : task[k].step # "none" /\ task[k].tier = t

(* An offer that lapses is passed on (PLAN.md:289): while one is out, those *)
(* who wait do not stand still, unless its owner gives it up.              *)
LapsePromotes ==
    \A u \in Users, t \in Tiers : \A rows \in SUBSET Stamps :
        entry[<<u, t>>].status = "notified" /\ WaitingRows(t) # {} /\ Served(t) = rows
        ~> \/ Served(t) # rows \/ lost \/ event = "cancelled"
           \/ entry[<<u, t>>].status = "none"

(* Whoever is notified has been sent the mail that says so, once the tasks *)
(* have run.                                                               *)
OfferIsMailed ==
    \A s \in Slots : entry[s].status = "notified" /\ ~TaskAlive(s[2]) =>
        entry[s].stamp \in mailed

(* A user who has bought in time holds no live offer.                      *)
OfferEndsInPurchase ==
    [][\A u \in Users, p \in Purchases :
           /\ p \in standing' \ standing
           /\ BuyerOf[p] = u
           /\ entry[<<u, TierOf[p]>>].status = "notified"
           => entry'[<<u, TierOf[p]>>].status # "notified"]_vars

(* A user has tickets of a tier or waits for them, never both.             *)
NeverBoth ==
    \A u \in Users, t \in Tiers : Holds(u, t) => entry[<<u, t>>].status # "waiting"

(* Once a tier has places again, no promotion was lost and none is under   *)
(* way, nobody is left waiting for it.                                     *)
NoQueueForStock ==
    \A t \in Tiers :
        /\ event = "open" /\ ~lost
        /\ stock[t] > 0
        /\ owed[t] = 0
        /\ ~TaskAlive(t)
        /\ \A u \in Users : entry[<<u, t>>].status # "notified"
        => \A u \in Users : entry[<<u, t>>].status # "waiting"

(* A cancelled event has no waitlist once its cancellation is through.     *)
CancelledHasNoWaitlist ==
    organizer = "done" /\ (\A r \in Requests : request[r] = NoRequest) =>
        \A s \in Slots : entry[s].status = "none"

===============================================================================
