------------------------------- MODULE Outbox -------------------------------
(***************************************************************************)
(* Deferred delivery (jac/jaclang/server/outbox.jac, impl/outbox.impl.jac): *)
(* rows of jac_outbox, one per idempotency key, delivered by the worker     *)
(* threads of the server processes, and the endpoint that receives them     *)
(* (server/endpoints/impl/walkers.impl.jac), which remembers keys it has     *)
(* answered.                                                                *)
(*                                                                         *)
(* Clock readings are kept relative to now: `wait` is next_attempt_at - now, *)
(* `since` is how long ago something was, a remembered key has a rest.      *)
(***************************************************************************)
EXTENDS Integers, FiniteSets

CONSTANTS
    Keys,          \* idempotency keys
    Workers,       \* delivery threads, one per server process
    Slots,         \* deliveries a receiver can be working on at once
    NoEntry, NoCall, NoItem,
    MaxAttempts,   \* DEFAULT_MAX_ATTEMPTS
    Batch,         \* DELIVER_BATCH
    Lease,         \* LEASE_S
    BackoffCap,    \* BACKOFF_CAP_S
    Ttl,           \* DELIVERED_TTL_S and DEFAULT_SEEN_TTL_S
    InProcess,     \* the provider is colocated: sv_client._local_spawn
    Prompt,        \* a due row is tried within MaxPass, a delivery ends before
                   \* its row is due again, no receiver dies with a walker
                   \* committed and its key not yet remembered
    MaxPass,       \* bound: how long a delivery pass takes
    MaxRows,       \* bound: rows ever made
    MaxFaults      \* bound: crashes, lost answers and timeouts

Smaller(m, n) == IF m < n THEN m ELSE n
Larger(m, n)  == IF m > n THEN m ELSE n

ASSUME OutboxAssumption ==
    /\ MaxAttempts \in Nat \ {0} /\ Batch \in Nat \ {0} /\ Lease \in Nat \ {0}
    /\ BackoffCap \in Nat \ {0} /\ Ttl \in Nat \ {0} /\ MaxPass \in Nat
    /\ MaxRows \in Nat /\ MaxFaults \in Nat
    /\ InProcess \in BOOLEAN /\ Prompt \in BOOLEAN

Ids    == 1 .. MaxRows
Status == {"pending", "delivering", "delivered", "dead"}

VARIABLES
    box,       \* the table jac_outbox, by key
    seen,      \* jac_outbox_seen: how long each key is still remembered
    workers,   \* each worker's delivery pass
    calls,     \* deliveries under way at the receiver
    made,      \* rows ever made, by key
    runs,      \* history: walker runs committed for each row (2: more than one)
    tries,     \* history: deliveries begun for each row
    faults

vars == <<box, seen, workers, calls, made, runs, tries, faults>>

\* `held` is history: what is left of LEASE_S since the last claim.
Entry == [id : Ids, status : Status, attempts : 0 .. MaxAttempts,
          wait : Int, since : 0 .. Ttl + 1, held : 0 .. Lease]

Item == [key : Keys, id : Ids, attempts : 0 .. MaxAttempts]

Worker == [pc : {"idle", "claim", "calling", "update", "prune"},
           since : 0 .. MaxPass,            \* since the pass read the clock
           due : SUBSET Item,               \* rows it listed and has yet to try
           item : Item \cup {NoItem},
           outcome : {"none", "ok", "failed", "rejected"}]

\* `by` is NoItem once nobody waits for the answer.
Call == [key : Keys, id : Ids, by : Workers \cup {NoItem},
         stage : {"sent", "running", "ran"}]

ASSUME NullAssumption ==
    NoEntry \notin Entry /\ NoItem \notin Item \cup Workers /\ NoCall \notin Call

Idle == [pc |-> "idle", since |-> 0, due |-> {}, item |-> NoItem, outcome |-> "none"]

Init ==
    /\ box = [k \in Keys |-> NoEntry]
    /\ seen = [k \in Keys |-> 0]
    /\ workers = [w \in Workers |-> Idle]
    /\ calls = [c \in Slots |-> NoCall]
    /\ made = [k \in Keys |-> 0]
    /\ runs = [k \in Keys |-> [n \in Ids |-> 0]]
    /\ tries = [k \in Keys |-> [n \in Ids |-> 0]]
    /\ faults = 0

Fault == faults < MaxFaults /\ faults' = faults + 1

-----------------------------------------------------------------------------
(* enqueue, committed with the request it is part of.  A key that has a row, *)
(* whatever its status, is dropped: the row found is the answer.            *)

Enqueue(k) ==
    /\ box[k] = NoEntry /\ made[k] < MaxRows
    /\ Cardinality({p \in Keys \X Ids : p[2] <= made[p[1]]}) < MaxRows
    /\ made' = [made EXCEPT ![k] = @ + 1]
    /\ box' = [box EXCEPT ![k] =
                  [id |-> made[k] + 1, status |-> "pending", attempts |-> 0,
                   wait |-> 0, since |-> 0, held |-> 0]]
    /\ UNCHANGED <<seen, workers, calls, runs, tries, faults>>

-----------------------------------------------------------------------------
(* deliver_pending.  The pass reads the clock once: the rows it lists are    *)
(* claimed one after another against that reading.                          *)

\* Mutant: a row left delivering is nobody's.
OpenPending(row) == row # NoEntry /\ row.status = "pending"

\* Mutant: a delivered row is open still.
OpenUnlessDead(row) == row # NoEntry /\ row.status # "dead"

Open(row) == row # NoEntry /\ row.status \in {"pending", "delivering"}

Claimable(row, item, since) ==
    Open(row) /\ row.id = item.id /\ row.wait <= - since

Backoff(attempts) ==
    IF attempts <= 1 THEN 1 ELSE Smaller(BackoffCap, 2 ^ (attempts - 1))

StartPass(w) ==
    /\ workers[w].pc = "idle"
    /\ \E ks \in SUBSET {k \in Keys : Open(box[k]) /\ box[k].wait <= 0} :
        LET due == {k \in Keys : Open(box[k]) /\ box[k].wait <= 0} IN
        /\ Cardinality(ks) = Smaller(Batch, Cardinality(due))
        /\ \A k \in ks, j \in due \ ks : box[k].wait <= box[j].wait
        /\ workers' = [workers EXCEPT ![w] =
              [Idle EXCEPT
                 !.pc  = IF ks = {} THEN "prune" ELSE "claim",
                 !.due = {[key |-> k, id |-> box[k].id, attempts |-> box[k].attempts] :
                             k \in ks}]]
    /\ UNCHANGED <<box, seen, calls, made, runs, tries, faults>>

Onward(w) == IF workers[w].due = {} THEN "prune" ELSE "claim"

Claimed(row, since) ==
    [row EXCEPT !.status = "delivering", !.wait = Lease - since, !.held = Lease]

\* A row somebody else has claimed or settled meanwhile is passed over; else
\* the delivery is sent.
Claim(w) ==
    /\ workers[w].pc = "claim"
    /\ \E item \in workers[w].due :
        LET k     == item.key
            rest  == workers[w].due \ {item}
            since == workers[w].since
        IN
        IF Claimable(box[k], item, since)
        THEN /\ \E c \in Slots :
                 /\ calls[c] = NoCall
                 /\ calls' = [calls EXCEPT ![c] =
                       [key |-> k, id |-> item.id, by |-> w,
                        stage |-> IF InProcess THEN "running" ELSE "sent"]]
             /\ box' = [box EXCEPT ![k] = Claimed(box[k], since)]
             /\ tries' = [tries EXCEPT ![k][item.id] = Smaller(MaxAttempts + 1, @ + 1)]
             /\ workers' = [workers EXCEPT ![w] =
                   [workers[w] EXCEPT !.pc = "calling", !.due = rest,
                                      !.item = [item EXCEPT !.attempts = @ + 1]]]
        ELSE /\ workers' = [workers EXCEPT ![w] =
                   [workers[w] EXCEPT !.due = rest,
                                      !.pc  = IF rest = {} THEN "prune" ELSE "claim"]]
             /\ UNCHANGED <<box, calls, tries>>
    /\ UNCHANGED <<seen, made, runs, faults>>

\* Mutants: the attempts are added to the row's; nothing is ever dead.
UpdatedAdding(row, item, outcome) ==
    [row EXCEPT !.attempts = Smaller(MaxAttempts, @ + item.attempts),
                !.wait = Backoff(item.attempts), !.held = 0,
                !.status = IF outcome = "ok" THEN "delivered"
                           ELSE IF outcome = "rejected" \/ item.attempts >= MaxAttempts
                           THEN "dead" ELSE "pending"]

UpdatedForever(row, item, outcome) ==
    [row EXCEPT !.attempts = item.attempts,
                !.wait = Backoff(item.attempts), !.held = 0,
                !.status = IF outcome = "ok" THEN "delivered" ELSE "pending"]

\* What becomes of the row.  next_attempt_at of a settled row is never read.
Updated(row, item, outcome) ==
    [row EXCEPT !.attempts = item.attempts, !.held = 0,
                !.status = IF outcome = "ok" THEN "delivered"
                           ELSE IF outcome = "rejected" \/ item.attempts >= MaxAttempts
                           THEN "dead" ELSE "pending",
                !.wait = Backoff(item.attempts)]

\* By id alone: whatever has become of the row since it was claimed.
Update(w) ==
    LET item == workers[w].item
        row  == box[item.key]
    IN
    /\ workers[w].pc = "update"
    /\ box' = IF row = NoEntry \/ row.id # item.id THEN box
              ELSE [box EXCEPT ![item.key] = Updated(row, item, workers[w].outcome)]
    /\ workers' = [workers EXCEPT ![w] =
          [workers[w] EXCEPT !.pc = Onward(w), !.item = NoItem, !.outcome = "none"]]
    /\ UNCHANGED <<seen, calls, made, runs, tries, faults>>

\* Mutant: every old row goes, delivered or not.
ExpiredAny(row) == row # NoEntry /\ row.since > Ttl

Expired(row) == row # NoEntry /\ row.status = "delivered" /\ row.since > Ttl

Prune(w) ==
    /\ workers[w].pc = "prune"
    /\ box' = [k \in Keys |-> IF Expired(box[k]) THEN NoEntry ELSE box[k]]
    /\ workers' = [workers EXCEPT ![w] = Idle]
    /\ UNCHANGED <<seen, calls, made, runs, tries, faults>>

PurgeDead ==
    /\ \E k \in Keys : box[k] # NoEntry /\ box[k].status = "dead"
    /\ box' = [k \in Keys |-> IF box[k] # NoEntry /\ box[k].status = "dead"
                              THEN NoEntry ELSE box[k]]
    /\ UNCHANGED <<seen, workers, calls, made, runs, tries, faults>>

-----------------------------------------------------------------------------
(* The receiver.                                                           *)

\* The outcome of its delivery, as a worker learns it.
Told(worker, outcome) == [worker EXCEPT !.pc = "update", !.outcome = outcome]

\* The call is over; the worker waiting for it, if any, learns the outcome.
Ends(c, outcome) ==
    /\ calls' = [calls EXCEPT ![c] = NoCall]
    /\ workers' = IF calls[c].by = NoItem THEN workers
                  ELSE [workers EXCEPT ![calls[c].by] = Told(workers[calls[c].by], outcome)]

Answers(c, outcome) ==
    \/ Ends(c, outcome) /\ UNCHANGED faults
    \/ ~ InProcess /\ calls[c].by # NoItem /\ Fault /\ Ends(c, "failed")

\* replay_cached, and what the endpoint refuses before it (401, 404, the
\* endpoint contract).
\* Mutant: the key is not looked up.
ReceiveUnchecked(c) ==
    /\ calls[c] # NoCall /\ calls[c].stage = "sent"
    /\ \/ Answers(c, "rejected")
       \/ calls' = [calls EXCEPT ![c].stage = "running"] /\ UNCHANGED <<workers, faults>>
    /\ UNCHANGED <<box, seen, made, runs, tries>>

Receive(c) ==
    /\ calls[c] # NoCall /\ calls[c].stage = "sent"
    /\ \/ Answers(c, "rejected")
       \/ seen[calls[c].key] > 0 /\ Answers(c, "ok")
       \/ /\ seen[calls[c].key] = 0
          /\ calls' = [calls EXCEPT ![c].stage = "running"]
          /\ UNCHANGED <<workers, faults>>
    /\ UNCHANGED <<box, seen, made, runs, tries>>

\* The walker commits, or leaves nothing: an error, a 4xx of its own.
RunWalker(c) ==
    /\ calls[c] # NoCall /\ calls[c].stage = "running"
    /\ \/ /\ runs' = [runs EXCEPT ![calls[c].key][calls[c].id] = Smaller(2, @ + 1)]
          /\ IF InProcess THEN Ends(c, "ok")
             ELSE calls' = [calls EXCEPT ![c].stage = "ran"] /\ UNCHANGED workers
          /\ UNCHANGED faults
       \/ /\ \E outcome \in {"failed", "rejected"} : Answers(c, outcome)
          /\ UNCHANGED runs
    /\ UNCHANGED <<box, seen, made, tries>>

Remember(c) ==
    /\ calls[c] # NoCall /\ calls[c].stage = "ran"
    /\ seen' = [seen EXCEPT ![calls[c].key] = Ttl]
    /\ Answers(c, "ok")
    /\ UNCHANGED <<box, made, runs, tries>>

-----------------------------------------------------------------------------
(* What goes wrong.                                                        *)

\* The receiving process dies, or fails to remember the key.
ReceiverDies(c) ==
    /\ ~ InProcess /\ calls[c] # NoCall
    /\ Prompt => calls[c].stage # "ran"
    /\ Fault /\ Ends(c, "failed")
    /\ UNCHANGED <<box, seen, made, runs, tries>>

\* The worker's client times out; the receiver does not know.
GiveUp(w) ==
    /\ workers[w].pc = "calling" /\ ~ InProcess
    /\ Fault
    /\ workers' = [workers EXCEPT ![w] = Told(workers[w], "failed")]
    /\ calls' = [c \in Slots |-> IF calls[c] # NoCall /\ calls[c].by = w
                                 THEN [calls[c] EXCEPT !.by = NoItem] ELSE calls[c]]
    /\ UNCHANGED <<box, seen, made, runs, tries>>

\* The worker's process dies, or its pass ends in a database error.
Crash(w) ==
    /\ workers[w].pc # "idle"
    /\ Fault
    /\ workers' = [workers EXCEPT ![w] = Idle]
    /\ calls' = [c \in Slots |-> IF calls[c] = NoCall \/ calls[c].by # w THEN calls[c]
                                 ELSE IF InProcess THEN NoCall
                                 ELSE [calls[c] EXCEPT !.by = NoItem]]
    /\ UNCHANGED <<box, seen, made, runs, tries>>

-----------------------------------------------------------------------------
(* Time.                                                                   *)

Delivering(k) ==
    \/ \E c \in Slots : calls[c] # NoCall /\ calls[c].key = k
    \/ \E w \in Workers : workers[w].item # NoItem /\ workers[w].item.key = k

Tick ==
    /\ \A w \in Workers : workers[w].pc # "idle" => workers[w].since < MaxPass
    /\ Prompt => \A k \in Keys :
          /\ Open(box[k]) => box[k].wait > - MaxPass
          /\ Delivering(k) => Open(box[k]) /\ box[k].wait # 1
    /\ workers' = [w \in Workers |-> IF workers[w].pc = "idle" THEN workers[w]
                                     ELSE [workers[w] EXCEPT !.since = @ + 1]]
    /\ box' = [k \in Keys |->
          IF box[k] = NoEntry THEN NoEntry
          ELSE [box[k] EXCEPT
                  !.wait  = IF Open(box[k]) THEN Larger(- MaxPass, @ - 1) ELSE @,
                  !.since = Smaller(Ttl + 1, @ + 1),
                  !.held  = Larger(0, @ - 1)]]
    /\ seen' = [k \in Keys |-> Larger(0, seen[k] - 1)]
    /\ UNCHANGED <<calls, made, runs, tries, faults>>

WorkerStep(w) == StartPass(w) \/ Claim(w) \/ Update(w) \/ Prune(w)
CallStep(c)   == Receive(c) \/ RunWalker(c) \/ Remember(c)

Next ==
    \/ \E k \in Keys : Enqueue(k)
    \/ \E w \in Workers : WorkerStep(w) \/ GiveUp(w) \/ Crash(w)
    \/ \E c \in Slots : CallStep(c) \/ ReceiverDies(c)
    \/ PurgeDead
    \/ Tick

Spec == Init /\ [][Next]_vars

\* The worker thread loops, the receiver serves, the clock runs.
Fairness ==
    /\ WF_vars(Tick)
    /\ \A w \in Workers : WF_vars(WorkerStep(w))
    /\ \A c \in Slots : WF_vars(CallStep(c))
FairSpec == Spec /\ Fairness

-----------------------------------------------------------------------------
(* What holds.                                                             *)

TypeOK ==
    /\ box \in [Keys -> Entry \cup {NoEntry}]
    /\ seen \in [Keys -> 0 .. Ttl]
    /\ workers \in [Workers -> Worker]
    /\ calls \in [Slots -> Call \cup {NoCall}]
    /\ made \in [Keys -> 0 .. MaxRows]
    /\ runs \in [Keys -> [Ids -> 0 .. 2]]
    /\ tries \in [Keys -> [Ids -> 0 .. MaxAttempts + 1]]
    /\ faults \in 0 .. MaxFaults

\* A message's walker commits once, whatever worker crashed or answer was
\* lost on the way: the receiver answers a retry with the remembered result.
RunsOnce == \A k \in Keys : \A n \in Ids : runs[k][n] <= 1

\* A message delivered is settled: no worker still holding an older copy of
\* the row puts it back to pending or declares it dead.
DeliveredStays ==
    [][\A k \in Keys :
        (box[k] # NoEntry /\ box[k].status = "delivered" /\ box'[k] # NoEntry)
            => box'[k].status = "delivered"]_vars

\* No attempt is counted that was not made, so none of the allowed attempts
\* is taken from a message before it is declared dead.
AttemptsWereMade ==
    \A k \in Keys : box[k] # NoEntry => box[k].attempts <= tries[k][box[k].id]

\* A row leaves the table only after its walker ran, or as a dead letter: no
\* message is lost between worker passes that overwrite each other's outcome.
NoMessageLost ==
    [][\A k \in Keys :
        (box[k] # NoEntry /\ box'[k] = NoEntry) =>
            \/ box[k].status = "dead"
            \/ \E n \in Ids : runs[k][n] > 0]_vars

\* Every message is delivered or a dead letter in the end, also when the
\* worker that had claimed it died.
Settles ==
    \A k \in Keys :
        (box[k] # NoEntry /\ box[k].status \in {"pending", "delivering"})
            ~> (box[k] = NoEntry \/ box[k].status \in {"delivered", "dead"})

-----------------------------------------------------------------------------
(* What the documentation says of the program, and the code does not do.    *)

\* jac-scale-http.md: a worker claims a row with a 60s lease.
LeaseBlocks ==
    [][\A k \in Keys :
        (\E w \in Workers : workers[w].pc = "claim" /\ workers'[w].pc = "calling"
                              /\ workers'[w].item.key = k)
            => box[k].held = 0]_vars
=============================================================================
