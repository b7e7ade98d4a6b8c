---------------------------- MODULE OutboxProofs ----------------------------
(***************************************************************************)
(* What holds of Outbox for any number of keys, workers and deliveries.      *)
(*                                                                         *)
(* Whatever the clocks do: no attempt is counted that was not made, and no   *)
(* message leaves the table before its walker ran unless it is a dead        *)
(* letter. Where no delivery outlasts its lease or backoff (Timely): a       *)
(* delivered message stays delivered and, where remembered keys outlast      *)
(* their messages (KeysOutlast), its walker commits once.                   *)
(***************************************************************************)
EXTENDS Outbox, FiniteSetTheorems, TLAPS

\* A walker of a row with key k has committed.
Ran(k) == \E n \in Ids : runs[k][n] > 0

\* A worker between claiming a row and settling it holds the row's item; the
\* delivery it waits for, if any, is of that item, and its only one.
InHand ==
    /\ \A w \in Workers :
          workers[w].pc \in {"calling", "update"} => workers[w].item # NoItem
    /\ \A c \in Slots : calls[c] # NoCall /\ calls[c].by # NoItem =>
          /\ workers[calls[c].by].pc = "calling"
          /\ workers[calls[c].by].item.key = calls[c].key
    /\ \A c, d \in Slots :
          (calls[c] # NoCall /\ calls[d] # NoCall /\ calls[c].by = calls[d].by
             /\ calls[c].by # NoItem) => c = d

\* A row, a listed copy of it and the copy in hand count only attempts made,
\* and what is still to be tried has an attempt left.
Counted ==
    /\ \A k \in Keys : box[k] # NoEntry =>
          /\ box[k].attempts <= tries[k][box[k].id]
          /\ Open(box[k]) => box[k].attempts < MaxAttempts
    /\ \A w \in Workers : \A item \in workers[w].due :
          /\ item.attempts <= tries[item.key][item.id]
          /\ item.attempts < MaxAttempts
    /\ \A w \in Workers : workers[w].item # NoItem =>
          workers[w].item.attempts <= tries[workers[w].item.key][workers[w].item.id]

\* Whatever says that a message was delivered says so after its walker ran.
RanFirst ==
    /\ \A k \in Keys : box[k] # NoEntry /\ box[k].status = "delivered" => Ran(k)
    /\ \A k \in Keys : seen[k] > 0 => Ran(k)
    /\ \A c \in Slots : calls[c] # NoCall /\ calls[c].stage = "ran" => Ran(calls[c].key)
    /\ \A w \in Workers : workers[w].outcome = "ok" =>
          workers[w].pc = "update" /\ Ran(workers[w].item.key)

OutboxInv == TypeOK /\ InHand /\ Counted /\ RanFirst

-----------------------------------------------------------------------------
(* What a step does to the parts the invariant speaks of.                   *)

\* A row of the table with other clock readings is a row again.
LEMMA EntryAges ==
    ASSUME NEW row \in Entry
    PROVE  [row EXCEPT !.wait  = IF Open(row) THEN Larger(- MaxPass, @ - 1) ELSE @,
                       !.since = Smaller(Ttl + 1, @ + 1),
                       !.held  = Larger(0, @ - 1)] \in Entry
<1> DEFINE wait  == IF Open(row) THEN Larger(- MaxPass, row.wait - 1) ELSE row.wait
           since == Smaller(Ttl + 1, row.since + 1)
           held  == Larger(0, row.held - 1)
<1>1. wait \in Int /\ since \in 0 .. Ttl + 1 /\ held \in 0 .. Lease
      BY OutboxAssumption DEF Entry, Larger, Smaller
<1> HIDE DEF wait, since, held
<1>2. [row EXCEPT !.wait = wait, !.since = since, !.held = held] \in Entry
      BY <1>1 DEF Entry
<1>3. QED BY <1>2 DEF wait, since, held

\* A row claimed is a row again.
LEMMA EntryClaims ==
    ASSUME NEW row \in Entry, NEW since \in 0 .. MaxPass
    PROVE  Claimed(row, since) \in Entry
<1>1. Lease - since \in Int /\ Lease \in 0 .. Lease
      BY OutboxAssumption
<1>2. QED BY <1>1 DEF Entry, Status, Claimed

\* A row settled or put back is a row again.
LEMMA EntryUpdates ==
    ASSUME NEW row \in Entry, NEW item \in Item, NEW outcome
    PROVE  Updated(row, item, outcome) \in Entry
<1> DEFINE status == IF outcome = "ok" THEN "delivered"
                     ELSE IF outcome = "rejected" \/ item.attempts >= MaxAttempts
                     THEN "dead" ELSE "pending"
           wait == Backoff(item.attempts)
<1>1. item.attempts \in 0 .. MaxAttempts /\ 0 \in 0 .. Lease
      BY OutboxAssumption DEF Item
<1>2. wait \in Int
  <2>1. CASE item.attempts <= 1
        BY <1>1, <2>1 DEF Backoff
  <2>2. CASE ~ item.attempts <= 1
    <3>1. item.attempts - 1 \in Nat
          BY <1>1, <2>2, OutboxAssumption
    <3>2. 2 ^ (item.attempts - 1) \in Int
          BY <3>1
    <3>3. QED BY <2>2, <3>2, OutboxAssumption DEF Backoff, Smaller
  <2>3. QED BY <2>1, <2>2
<1>3. status \in Status
      BY DEF Status
<1> HIDE DEF status, wait
<1>4. [row EXCEPT !.attempts = item.attempts, !.held = 0, !.status = status, !.wait = wait] \in Entry
      BY <1>1, <1>2, <1>3 DEF Entry
<1>5. QED BY <1>4 DEF Updated, status, wait

\* A walker that has run has run for good: no step takes a run back.
LEMMA RunsStay ==
    ASSUME TypeOK, Next, NEW k \in Keys, Ran(k)
    PROVE  Ran(k)'
<1>1. CASE UNCHANGED runs
      BY <1>1 DEF Ran
<1>2. ASSUME NEW c \in Slots, RunWalker(c), runs' # runs
      PROVE  Ran(k)'
  <2>1. /\ calls[c] \in Call
        /\ runs' = [runs EXCEPT ![calls[c].key][calls[c].id] = Smaller(2, @ + 1)]
        BY <1>2 DEF RunWalker, TypeOK
  <2>2. calls[c].key \in Keys /\ calls[c].id \in Ids
        BY <2>1 DEF Call
  <2>3. PICK n \in Ids : runs[k][n] > 0
        BY DEF Ran
  <2>4. runs[k][n] \in 0 .. 2 /\ runs'[k][n] \in {runs[k][n], Smaller(2, runs[k][n] + 1)}
        BY <2>1, <2>2, <2>3 DEF TypeOK
  <2>5. runs'[k][n] > 0
        BY <2>3, <2>4 DEF Smaller
  <2>6. QED BY <2>5 DEF Ran
<1>3. QED
      BY <1>1, <1>2 DEF Next, WorkerStep, CallStep, Enqueue, StartPass, Claim, Update,
         Prune, GiveUp, Crash, Receive, Remember, ReceiverDies, PurgeDead, Tick

\* A step of the receiver either moves the delivery on or ends it; it tells the
\* worker "ok" only of a walker that ran.
LEMMA CallEffect ==
    ASSUME OutboxInv, NEW c \in Slots, CallStep(c) \/ ReceiverDies(c),
           NEW k, k = calls[c].key
    PROVE  /\ UNCHANGED <<box, made, tries>>
           /\ calls[c] \in Call /\ calls[c] # NoCall /\ k \in Keys
           /\ \/ /\ calls' = [calls EXCEPT ![c].stage = "running"]
                 /\ UNCHANGED workers
              \/ /\ calls' = [calls EXCEPT ![c].stage = "ran"]
                 /\ UNCHANGED workers
                 /\ Ran(k)'
              \/ \E outcome \in {"ok", "failed", "rejected"} :
                    /\ Ends(c, outcome)
                    /\ outcome = "ok" => Ran(k)'
<1>1. calls[c] # NoCall
      BY DEF CallStep, Receive, RunWalker, Remember, ReceiverDies
<1>2. calls[c] \in Call
      BY <1>1 DEF OutboxInv, TypeOK
<1>3. calls[c].key \in Keys /\ calls[c].id \in Ids
      BY <1>2 DEF Call
<1>4. CASE Receive(c)
  <2>1. UNCHANGED <<box, seen, made, runs, tries>>
        BY <1>4 DEF Receive
  <2>2. CASE Answers(c, "rejected")
        BY <1>1, <1>2, <1>3, <2>1, <2>2 DEF Answers
  <2>3. CASE seen[calls[c].key] > 0 /\ Answers(c, "ok")
    <3>1. Ran(k)'
          BY <1>3, <2>1, <2>3 DEF OutboxInv, RanFirst, Ran
    <3>2. Ends(c, "ok") \/ Ends(c, "failed")
          BY <2>3 DEF Answers
    <3>3. QED BY <1>1, <1>2, <1>3, <2>1, <3>1, <3>2
  <2>4. CASE calls' = [calls EXCEPT ![c].stage = "running"] /\ UNCHANGED workers
        BY <1>1, <1>2, <1>3, <2>1, <2>4
  <2>5. QED BY <1>4, <2>2, <2>3, <2>4 DEF Receive
<1>5. CASE RunWalker(c)
  <2>1. UNCHANGED <<box, seen, made, tries>>
        BY <1>5 DEF RunWalker
  <2>2. CASE runs' = [runs EXCEPT ![calls[c].key][calls[c].id] = Smaller(2, @ + 1)]
    <3>1. runs'[calls[c].key][calls[c].id] = Smaller(2, runs[calls[c].key][calls[c].id] + 1)
          BY <1>3, <2>2 DEF OutboxInv, TypeOK
    <3>2. runs[calls[c].key][calls[c].id] \in 0 .. 2
          BY <1>3 DEF OutboxInv, TypeOK
    <3>3. runs'[calls[c].key][calls[c].id] > 0
          BY <3>1, <3>2 DEF Smaller
    <3>4. Ran(k)'
          BY <1>3, <3>3 DEF Ran
    <3>5. QED BY <1>1, <1>2, <1>3, <1>5, <2>1, <3>4 DEF RunWalker, Answers
  <2>3. CASE \E outcome \in {"failed", "rejected"} : Answers(c, outcome)
        BY <1>1, <1>2, <1>3, <2>1, <2>3 DEF Answers
  <2>4. QED BY <1>5, <2>2, <2>3 DEF RunWalker
<1>6. CASE Remember(c)
  <2>1. UNCHANGED <<box, made, runs, tries>> /\ Answers(c, "ok")
        BY <1>6 DEF Remember
  <2>2. Ran(k)'
        BY <1>1, <1>6, <2>1 DEF OutboxInv, RanFirst, Remember, Ran
  <2>3. Ends(c, "ok") \/ Ends(c, "failed")
        BY <2>1 DEF Answers
  <2>4. QED BY <1>1, <1>2, <1>3, <2>1, <2>2, <2>3
<1>7. CASE ReceiverDies(c)
      BY <1>1, <1>2, <1>3, <1>7 DEF ReceiverDies
<1>8. QED BY <1>4, <1>5, <1>6, <1>7 DEF CallStep

\* Ending a delivery keeps the types of the workers and of the deliveries.
LEMMA EndsTypes ==
    ASSUME TypeOK, NEW c \in Slots, calls[c] \in Call,
           NEW outcome \in {"ok", "failed", "rejected"}, Ends(c, outcome)
    PROVE  /\ workers' \in [Workers -> Worker]
           /\ calls' \in [Slots -> Call \cup {NoCall}]
<1>1. workers \in [Workers -> Worker] /\ calls \in [Slots -> Call \cup {NoCall}]
      BY DEF TypeOK
<1>2. calls' \in [Slots -> Call \cup {NoCall}]
      BY <1>1 DEF Ends
<1>3. ASSUME NEW w \in Workers
      PROVE  Told(workers[w], outcome) \in Worker
      BY <1>1 DEF Worker, Told
<1>4. CASE calls[c].by = NoItem
      BY <1>1, <1>2, <1>4 DEF Ends
<1>5. CASE calls[c].by # NoItem
  <2>1. calls[c].by \in Workers
        BY <1>5 DEF Call
  <2>2. workers' = [workers EXCEPT ![calls[c].by] = Told(workers[calls[c].by], outcome)]
        BY <1>1, <1>5, <2>1 DEF Ends
  <2>3. QED BY <1>1, <1>2, <1>3, <2>1, <2>2
<1>6. QED BY <1>4, <1>5

\* Every step keeps the types.
LEMMA TypesStep ==
    ASSUME OutboxInv, Next
    PROVE  TypeOK'
<1> USE OutboxAssumption
<1>0. TypeOK /\ InHand
      BY DEF OutboxInv
<1>f. faults' \in 0 .. MaxFaults
  <2>1. faults' = faults \/ (faults < MaxFaults /\ faults' = faults + 1)
        BY DEF Next, WorkerStep, CallStep, Enqueue, StartPass, Claim, Update, Prune, GiveUp,
           Crash, Receive, RunWalker, Remember, Answers, ReceiverDies, PurgeDead, Tick, Fault
  <2>2. QED BY <1>0, <2>1 DEF TypeOK
<1>1. ASSUME NEW k \in Keys, Enqueue(k)
      PROVE  TypeOK'
  <2>1. [id |-> made[k] + 1, status |-> "pending", attempts |-> 0,
         wait |-> 0, since |-> 0, held |-> 0] \in Entry
    <3>1. made[k] + 1 \in Ids /\ 0 \in 0 .. MaxAttempts /\ 0 \in 0 .. Ttl + 1 /\ 0 \in 0 .. Lease
          BY <1>0, <1>f, <1>1, OutboxAssumption DEF Enqueue, TypeOK, Ids
    <3>2. QED BY <3>1 DEF Entry, Status
  <2>2. box' \in [Keys -> Entry \cup {NoEntry}]
        BY <1>0, <1>f, <1>1, <2>1 DEF TypeOK, Enqueue
  <2>3. made' \in [Keys -> 0 .. MaxRows]
        BY <1>0, <1>f, <1>1 DEF TypeOK, Enqueue
  <2>4. QED BY <1>0, <1>f, <1>1, <2>2, <2>3 DEF TypeOK, Enqueue
<1>2. ASSUME NEW w \in Workers, StartPass(w)
      PROVE  TypeOK'
  <2>1. PICK ks \in SUBSET {k \in Keys : Open(box[k]) /\ box[k].wait <= 0} :
            workers' = [workers EXCEPT ![w] =
              [Idle EXCEPT
                 !.pc  = IF ks = {} THEN "prune" ELSE "claim",
                 !.due = {[key |-> k, id |-> box[k].id, attempts |-> box[k].attempts] :
                             k \in ks}]]
        BY <1>2 DEF StartPass
  <2>2. \A k \in ks : [key |-> k, id |-> box[k].id, attempts |-> box[k].attempts] \in Item
        BY <1>0, <1>f, <2>1 DEF TypeOK, Entry, Open, Item
  <2> DEFINE due == {[key |-> k, id |-> box[k].id, attempts |-> box[k].attempts] : k \in ks}
             pc  == IF ks = {} THEN "prune" ELSE "claim"
  <2>3. due \in SUBSET Item /\ pc \in {"prune", "claim"}
        BY <2>2
  <2>4. workers' = [workers EXCEPT ![w] = [Idle EXCEPT !.pc = pc, !.due = due]]
        BY <2>1
  <2> HIDE DEF due, pc
  <2>5. [Idle EXCEPT !.pc = pc, !.due = due] \in Worker
    <3>1. 0 \in 0 .. MaxPass
          BY OutboxAssumption
    <3>2. QED BY <2>3, <3>1 DEF Idle, Worker
  <2>6. workers' \in [Workers -> Worker]
        BY <1>0, <1>f, <2>4, <2>5 DEF TypeOK
  <2>7. QED BY <1>0, <1>f, <1>2, <2>6 DEF TypeOK, StartPass
<1>3. ASSUME NEW w \in Workers, Claim(w)
      PROVE  TypeOK'
  <2>1. PICK item \in workers[w].due :
          LET k     == item.key
              rest  == workers[w].due \ {item}
              since == workers[w].since
          IN
          IF Claimable(box[k], item, since)
          THEN /\ \E c \in Slots :
                   /\ calls[c] = NoCall
                   /\ calls' = [calls EXCEPT ![c] =
                         [key |-> k, id |-> item.id, by |-> w,
                          stage |-> IF InProcess THEN "running" ELSE "sent"]]
               /\ box' = [box EXCEPT ![k] = Claimed(box[k], since)]
               /\ tries' = [tries EXCEPT ![k][item.id] = Smaller(MaxAttempts + 1, @ + 1)]
               /\ workers' = [workers EXCEPT ![w] =
                     [workers[w] EXCEPT !.pc = "calling", !.due = rest,
                                        !.item = [item EXCEPT !.attempts = @ + 1]]]
          ELSE /\ workers' = [workers EXCEPT ![w] =
                     [workers[w] EXCEPT !.due = rest,
                                        !.pc  = IF rest = {} THEN "prune" ELSE "claim"]]
               /\ UNCHANGED <<box, calls, tries>>
        BY <1>3 DEF Claim
  <2>2. item \in Item /\ item.attempts < MaxAttempts /\ workers[w] \in Worker
        BY <1>0 DEF OutboxInv, TypeOK, Worker, Counted
  <2>3. item.key \in Keys /\ item.id \in Ids /\ item.attempts \in 0 .. MaxAttempts
        BY <2>2 DEF Item
  <2> DEFINE rest == workers[w].due \ {item}
  <2>4. rest \in SUBSET Item
        BY <2>2 DEF Worker
  <2>5. CASE ~ Claimable(box[item.key], item, workers[w].since)
    <3>1. workers' = [workers EXCEPT ![w] =
             [workers[w] EXCEPT !.due = rest, !.pc = IF rest = {} THEN "prune" ELSE "claim"]]
          BY <1>0, <1>f, <2>1, <2>5 DEF TypeOK
    <3>2. workers' \in [Workers -> Worker]
          BY <1>0, <1>f, <2>2, <2>4, <3>1 DEF TypeOK, Worker
    <3>3. QED BY <1>0, <1>f, <1>3, <2>1, <2>5, <3>2 DEF TypeOK, Claim
  <2>6. CASE Claimable(box[item.key], item, workers[w].since)
    <3>1. box[item.key] # NoEntry /\ box[item.key] \in Entry
          BY <1>0, <1>f, <2>3, <2>6 DEF TypeOK, Claimable, Open
    <3>2. Claimed(box[item.key], workers[w].since) \in Entry
      <4>1. workers[w].since \in 0 .. MaxPass
            BY <2>2 DEF Worker
      <4>2. QED BY <3>1, <4>1, EntryClaims
    <3>3. box' = [box EXCEPT ![item.key] = Claimed(box[item.key], workers[w].since)]
          BY <1>0, <1>f, <2>1, <2>3, <2>6 DEF TypeOK
    <3>4. box' \in [Keys -> Entry \cup {NoEntry}]
          BY <1>0, <1>f, <2>3, <3>2, <3>3 DEF TypeOK
    <3>5. calls' \in [Slots -> Call \cup {NoCall}]
      <4>1. [key |-> item.key, id |-> item.id, by |-> w,
             stage |-> IF InProcess THEN "running" ELSE "sent"] \in Call
            BY <2>3 DEF Call
      <4>2. PICK c \in Slots : calls' = [calls EXCEPT ![c] =
                [key |-> item.key, id |-> item.id, by |-> w,
                 stage |-> IF InProcess THEN "running" ELSE "sent"]]
            BY <2>1, <2>6
      <4>3. calls \in [Slots -> Call \cup {NoCall}]
            BY <1>0 DEF TypeOK
      <4>4. QED BY <4>1, <4>2, <4>3
    <3>6. tries' \in [Keys -> [Ids -> 0 .. MaxAttempts + 1]]
      <4>1. tries[item.key][item.id] \in 0 .. MaxAttempts + 1
            BY <1>0, <1>f, <2>3 DEF TypeOK
      <4>2. Smaller(MaxAttempts + 1, tries[item.key][item.id] + 1) \in 0 .. MaxAttempts + 1
            BY <4>1 DEF Smaller
      <4>3. tries' = [tries EXCEPT ![item.key][item.id] =
                         Smaller(MaxAttempts + 1, tries[item.key][item.id] + 1)]
            BY <1>0, <1>f, <2>1, <2>3, <2>6 DEF TypeOK
      <4>4. QED BY <1>0, <1>f, <2>3, <4>2, <4>3 DEF TypeOK
    <3>7. [item EXCEPT !.attempts = @ + 1] \in Item
          BY <2>2, <2>3 DEF Item
    <3>8. workers' = [workers EXCEPT ![w] =
             [workers[w] EXCEPT !.pc = "calling", !.due = rest,
                                !.item = [item EXCEPT !.attempts = @ + 1]]]
          BY <1>0, <1>f, <2>1, <2>6 DEF TypeOK
    <3>9. workers' \in [Workers -> Worker]
          BY <1>0, <1>f, <2>2, <2>4, <3>7, <3>8 DEF TypeOK, Worker
    <3>10. QED BY <1>0, <1>f, <1>3, <3>4, <3>5, <3>6, <3>9 DEF TypeOK, Claim
  <2>7. QED BY <2>5, <2>6
<1>4. ASSUME NEW w \in Workers, Update(w)
      PROVE  TypeOK'
  <2> DEFINE item == workers[w].item
             row  == box[item.key]
  <2>1. workers[w] \in Worker /\ item \in Item
        BY <1>0, <1>f, <1>4 DEF TypeOK, InHand, Update, Worker
  <2>2. item.key \in Keys /\ item.attempts \in 0 .. MaxAttempts
        BY <2>1 DEF Item
  <2>3. ASSUME row # NoEntry
        PROVE  Updated(row, item, workers[w].outcome) \in Entry
        BY <1>0, <1>f, <2>1, <2>2, <2>3, EntryUpdates DEF TypeOK
  <2>4. box' \in [Keys -> Entry \cup {NoEntry}]
        BY <1>0, <1>f, <1>4, <2>2, <2>3 DEF TypeOK, Update
  <2>5. workers' \in [Workers -> Worker]
        BY <1>0, <1>f, <1>4, <2>1 DEF TypeOK, Update, Worker, Onward
  <2>6. QED BY <1>0, <1>f, <1>4, <2>4, <2>5 DEF TypeOK, Update
<1>5. ASSUME NEW w \in Workers, Prune(w)
      PROVE  TypeOK'
  <2>1. box' \in [Keys -> Entry \cup {NoEntry}]
        BY <1>0, <1>f, <1>5 DEF TypeOK, Prune
  <2>2. workers' \in [Workers -> Worker]
        BY <1>0, <1>f, <1>5 DEF TypeOK, Prune, Idle, Worker
  <2>3. QED BY <1>0, <1>f, <1>5, <2>1, <2>2 DEF TypeOK, Prune
<1>6. ASSUME NEW w \in Workers, GiveUp(w)
      PROVE  TypeOK'
  <2>1. workers' \in [Workers -> Worker]
    <3>1. Told(workers[w], "failed") \in Worker
          BY <1>0 DEF TypeOK, Worker, Told
    <3>2. QED BY <1>0, <1>6, <3>1 DEF TypeOK, GiveUp
  <2>2. calls' \in [Slots -> Call \cup {NoCall}]
        BY <1>0, <1>f, <1>6 DEF TypeOK, GiveUp, Call
  <2>3. QED BY <1>0, <1>f, <1>6, <2>1, <2>2 DEF TypeOK, GiveUp
<1>7. ASSUME NEW w \in Workers, Crash(w)
      PROVE  TypeOK'
  <2>1. workers' \in [Workers -> Worker]
        BY <1>0, <1>f, <1>7 DEF TypeOK, Crash, Idle, Worker
  <2>2. calls' \in [Slots -> Call \cup {NoCall}]
        BY <1>0, <1>f, <1>7 DEF TypeOK, Crash, Call
  <2>3. QED BY <1>0, <1>f, <1>7, <2>1, <2>2 DEF TypeOK, Crash
<1>8. ASSUME NEW c \in Slots, CallStep(c) \/ ReceiverDies(c)
      PROVE  TypeOK'
  <2>1. UNCHANGED <<box, made, tries>> /\ calls[c] \in Call
        BY <1>8, CallEffect
  <2>2. workers' \in [Workers -> Worker] /\ calls' \in [Slots -> Call \cup {NoCall}]
    <3>1. CASE calls' = [calls EXCEPT ![c].stage = "running"] /\ UNCHANGED workers
          BY <1>0, <1>f, <2>1, <3>1 DEF TypeOK, Call
    <3>2. CASE calls' = [calls EXCEPT ![c].stage = "ran"] /\ UNCHANGED workers
          BY <1>0, <1>f, <2>1, <3>2 DEF TypeOK, Call
    <3>3. CASE \E outcome \in {"ok", "failed", "rejected"} : Ends(c, outcome)
          BY <1>0, <1>f, <2>1, <3>3, EndsTypes
    <3>4. QED BY <1>8, <3>1, <3>2, <3>3, CallEffect
  <2>3. calls[c].key \in Keys /\ calls[c].id \in Ids
        BY <2>1 DEF Call
  <2>4. seen' \in [Keys -> 0 .. Ttl]
        BY <1>0, <1>f, <1>8, <2>3 DEF TypeOK, CallStep, Receive, RunWalker, Remember, ReceiverDies
  <2>5. runs' \in [Keys -> [Ids -> 0 .. 2]]
    <3>1. CASE UNCHANGED runs
          BY <1>0, <1>f, <3>1 DEF TypeOK
    <3>2. CASE runs' = [runs EXCEPT ![calls[c].key][calls[c].id] = Smaller(2, @ + 1)]
      <4>1. runs[calls[c].key][calls[c].id] \in 0 .. 2
            BY <1>0, <1>f, <2>3 DEF TypeOK
      <4>2. Smaller(2, runs[calls[c].key][calls[c].id] + 1) \in 0 .. 2
            BY <4>1 DEF Smaller
      <4>3. runs' = [runs EXCEPT ![calls[c].key][calls[c].id] =
                        Smaller(2, runs[calls[c].key][calls[c].id] + 1)]
            BY <1>0, <1>f, <2>3, <3>2 DEF TypeOK
      <4>4. QED BY <1>0, <1>f, <2>3, <4>2, <4>3 DEF TypeOK
    <3>3. QED BY <1>8, <3>1, <3>2 DEF CallStep, Receive, RunWalker, Remember, ReceiverDies
  <2>6. QED BY <1>0, <1>f, <2>1, <2>2, <2>4, <2>5 DEF TypeOK
<1>9. CASE PurgeDead
      BY <1>0, <1>f, <1>9 DEF TypeOK, PurgeDead
<1>10. CASE Tick
  <2>1. \A k \in Keys : box[k] # NoEntry => box'[k] \in Entry
    <3>1. ASSUME NEW k \in Keys, box[k] # NoEntry
          PROVE  box'[k] \in Entry
      <4>1. box[k] \in Entry
            BY <1>0, <1>f, <3>1 DEF TypeOK
      <4>2. box'[k] = [box[k] EXCEPT
                  !.wait  = IF Open(box[k]) THEN Larger(- MaxPass, @ - 1) ELSE @,
                  !.since = Smaller(Ttl + 1, @ + 1),
                  !.held  = Larger(0, @ - 1)]
            BY <1>10, <3>1 DEF Tick
      <4>3. QED BY <4>1, <4>2, EntryAges
    <3>2. QED BY <3>1
  <2>2. box' \in [Keys -> Entry \cup {NoEntry}]
    <3>1. box' = [k \in Keys |-> box'[k]] /\ \A k \in Keys : box[k] = NoEntry => box'[k] = NoEntry
          BY <1>10 DEF Tick
    <3>2. QED BY <2>1, <3>1
  <2>3. workers' \in [Workers -> Worker]
    <3>1. /\ workers' = [w \in Workers |-> IF workers[w].pc = "idle" THEN workers[w]
                                          ELSE [workers[w] EXCEPT !.since = @ + 1]]
          /\ \A w \in Workers : workers[w].pc # "idle" => workers[w].since < MaxPass
          BY <1>10 DEF Tick
    <3>2. workers \in [Workers -> Worker]
          BY <1>0 DEF TypeOK
    <3>3. ASSUME NEW w \in Workers, workers[w].pc # "idle"
          PROVE  [workers[w] EXCEPT !.since = @ + 1] \in Worker
          BY <3>1, <3>2, <3>3 DEF Worker
    <3>4. QED BY <3>1, <3>2, <3>3
  <2>4. seen' \in [Keys -> 0 .. Ttl]
    <3>1. seen' = [k \in Keys |-> Larger(0, seen[k] - 1)]
          BY <1>10 DEF Tick
    <3>2. QED BY <1>0, <1>f, <3>1 DEF TypeOK, Larger
  <2>5. QED BY <1>0, <1>f, <1>10, <2>2, <2>3, <2>4 DEF TypeOK, Tick
<1>11. QED
      BY <1>1, <1>2, <1>3, <1>4, <1>5, <1>6, <1>7, <1>8, <1>9, <1>10
      DEF Next, WorkerStep

\* A claim touches one worker, and either passes over the item or takes it in
\* hand, with an attempt more in both counts.
LEMMA ClaimEffect ==
    ASSUME OutboxInv, NEW w \in Workers, Claim(w)
    PROVE  /\ UNCHANGED <<seen, made, runs>>
           /\ workers[w].pc = "claim"
           /\ \A v \in Workers \ {w} : workers'[v] = workers[v]
           /\ workers'[w].outcome = workers[w].outcome
           /\ workers'[w].due \subseteq workers[w].due
           /\ \E item \in workers[w].due :
                \/ /\ workers'[w].pc \in {"prune", "claim"}
                   /\ workers'[w].item = workers[w].item
                   /\ UNCHANGED <<box, calls, tries>>
                \/ /\ workers'[w].pc = "calling"
                   /\ workers'[w].item = [item EXCEPT !.attempts = @ + 1]
                   /\ Open(box[item.key])
                   /\ Claimable(box[item.key], item, workers[w].since)
                   /\ box' = [box EXCEPT ![item.key] = Claimed(box[item.key], workers[w].since)]
                   /\ tries' = [tries EXCEPT ![item.key][item.id] =
                                    Smaller(MaxAttempts + 1, @ + 1)]
                   /\ \E c \in Slots : \E stage \in {"running", "sent"} :
                        /\ InProcess \/ stage = "sent"
                        /\ calls[c] = NoCall
                        /\ calls' = [calls EXCEPT ![c] =
                              [key |-> item.key, id |-> item.id, by |-> w,
                               stage |-> stage]]
<1>1. workers \in [Workers -> Worker] /\ workers[w] \in Worker
      BY DEF OutboxInv, TypeOK
<1>2. UNCHANGED <<seen, made, runs>> /\ workers[w].pc = "claim"
      BY DEF Claim
<1>3. PICK item \in workers[w].due :
          IF Claimable(box[item.key], item, workers[w].since)
          THEN /\ \E c \in Slots :
                   /\ calls[c] = NoCall
                   /\ calls' = [calls EXCEPT ![c] =
                         [key |-> item.key, id |-> item.id, by |-> w,
                          stage |-> IF InProcess THEN "running" ELSE "sent"]]
               /\ box' = [box EXCEPT ![item.key] = Claimed(box[item.key], workers[w].since)]
               /\ tries' = [tries EXCEPT ![item.key][item.id] = Smaller(MaxAttempts + 1, @ + 1)]
               /\ workers' = [workers EXCEPT ![w] =
                     [workers[w] EXCEPT !.pc = "calling", !.due = workers[w].due \ {item},
                                        !.item = [item EXCEPT !.attempts = @ + 1]]]
          ELSE /\ workers' = [workers EXCEPT ![w] =
                     [workers[w] EXCEPT !.due = workers[w].due \ {item},
                                        !.pc  = IF workers[w].due \ {item} = {}
                                                THEN "prune" ELSE "claim"]]
               /\ UNCHANGED <<box, calls, tries>>
      BY DEF Claim
<1>4. CASE ~ Claimable(box[item.key], item, workers[w].since)
  <2>1. /\ workers' = [workers EXCEPT ![w] =
              [workers[w] EXCEPT !.due = workers[w].due \ {item},
                                 !.pc = IF workers[w].due \ {item} = {} THEN "prune" ELSE "claim"]]
        /\ UNCHANGED <<box, calls, tries>>
        BY <1>1, <1>3, <1>4
  <2>2. /\ \A v \in Workers \ {w} : workers'[v] = workers[v]
        /\ workers'[w].outcome = workers[w].outcome
        /\ workers'[w].item = workers[w].item
        /\ workers'[w].due \subseteq workers[w].due
        /\ workers'[w].pc \in {"prune", "claim"}
        BY <1>1, <2>1 DEF Worker
  <2>3. QED BY <1>2, <2>1, <2>2
<1>5. CASE Claimable(box[item.key], item, workers[w].since)
  <2> DEFINE taken == [item EXCEPT !.attempts = @ + 1]
  <2>1. workers' = [workers EXCEPT ![w] =
           [workers[w] EXCEPT !.pc = "calling", !.due = workers[w].due \ {item}, !.item = taken]]
        BY <1>1, <1>3, <1>5
  <2> HIDE DEF taken
  <2>2. /\ \A v \in Workers \ {w} : workers'[v] = workers[v]
        /\ workers'[w].outcome = workers[w].outcome
        /\ workers'[w].due \subseteq workers[w].due
        /\ workers'[w].pc = "calling"
        /\ workers'[w].item = taken
        BY <1>1, <2>1 DEF Worker
  <2> USE DEF taken
  <2>3. Open(box[item.key])
        BY <1>5 DEF Claimable
  <2>4. \E c \in Slots : \E stage \in {"running", "sent"} :
           /\ InProcess \/ stage = "sent"
           /\ calls[c] = NoCall
           /\ calls' = [calls EXCEPT ![c] =
                 [key |-> item.key, id |-> item.id, by |-> w, stage |-> stage]]
    <3>1. PICK c \in Slots :
             /\ calls[c] = NoCall
             /\ calls' = [calls EXCEPT ![c] =
                   [key |-> item.key, id |-> item.id, by |-> w,
                    stage |-> IF InProcess THEN "running" ELSE "sent"]]
          BY <1>3, <1>5
    <3>2. QED BY <3>1
  <2>5. QED BY <1>2, <1>3, <1>5, <2>2, <2>3, <2>4
<1>6. QED BY <1>4, <1>5

\* Ending a delivery frees its slot and wakes the worker that waits for it.
LEMMA EndsEffect ==
    ASSUME OutboxInv, NEW c \in Slots, calls[c] \in Call,
           NEW outcome \in {"ok", "failed", "rejected"}, Ends(c, outcome)
    PROVE  /\ calls'[c] = NoCall
           /\ \A d \in Slots \ {c} : calls'[d] = calls[d]
           /\ \A w \in Workers :
                /\ workers'[w].item = workers[w].item
                /\ workers'[w].due = workers[w].due
                /\ w # calls[c].by => workers'[w] = workers[w]
                /\ w = calls[c].by =>
                      workers'[w].pc = "update" /\ workers'[w].outcome = outcome
<1>1. workers \in [Workers -> Worker] /\ calls \in [Slots -> Call \cup {NoCall}]
      BY DEF OutboxInv, TypeOK
<1>2. calls' = [calls EXCEPT ![c] = NoCall]
      BY DEF Ends
<1>3. CASE calls[c].by = NoItem
  <2>1. \A w \in Workers : w # NoItem
        BY NullAssumption
  <2>2. QED BY <1>1, <1>2, <1>3, <2>1 DEF Ends
<1>4. CASE calls[c].by # NoItem
  <2>1. calls[c].by \in Workers
        BY <1>4 DEF Call
  <2>2. workers' = [workers EXCEPT ![calls[c].by] = Told(workers[calls[c].by], outcome)]
        BY <1>1, <1>4, <2>1 DEF Ends
  <2>3. QED BY <1>1, <1>2, <2>1, <2>2 DEF Worker, Told
<1>5. QED BY <1>3, <1>4

\* Every step keeps worker and delivery together.
LEMMA InHandStep ==
    ASSUME OutboxInv, Next
    PROVE  InHand'
<1>0. /\ workers \in [Workers -> Worker] /\ calls \in [Slots -> Call \cup {NoCall}]
      /\ InHand
      BY DEF OutboxInv, TypeOK
<1>a. \A c \in Slots : calls[c] # NoCall /\ calls[c].by # NoItem => calls[c].by \in Workers
      BY <1>0 DEF Call
<1>1. ASSUME UNCHANGED <<workers, calls>>
      PROVE  InHand'
      BY <1>0, <1>1 DEF InHand
<1>2. ASSUME NEW w \in Workers, UNCHANGED calls,
             workers[w].pc \notin {"calling"},
             \A v \in Workers \ {w} : workers'[v] = workers[v],
             workers'[w].pc \notin {"calling", "update"}
      PROVE  InHand'
  <2>1. \A c \in Slots : calls[c] # NoCall /\ calls[c].by # NoItem => calls[c].by # w
        BY <1>0, <1>2 DEF InHand
  <2>2. QED BY <1>0, <1>a, <1>2, <2>1 DEF InHand
<1>3. ASSUME NEW w \in Workers, StartPass(w)
      PROVE  InHand'
  <2>1. PICK ks \in SUBSET {k \in Keys : Open(box[k]) /\ box[k].wait <= 0} :
            workers' = [workers EXCEPT ![w] =
              [Idle EXCEPT
                 !.pc  = IF ks = {} THEN "prune" ELSE "claim",
                 !.due = {[key |-> k, id |-> box[k].id, attempts |-> box[k].attempts] :
                             k \in ks}]]
        BY <1>3 DEF StartPass
  <2> DEFINE due == {[key |-> k, id |-> box[k].id, attempts |-> box[k].attempts] : k \in ks}
             pc  == IF ks = {} THEN "prune" ELSE "claim"
  <2>a. pc \notin {"calling", "update"}
        OBVIOUS
  <2>b. workers' = [workers EXCEPT ![w] = [Idle EXCEPT !.pc = pc, !.due = due]]
        BY <2>1
  <2> HIDE DEF due, pc
  <2>2. workers'[w].pc = pc /\ \A v \in Workers \ {w} : workers'[v] = workers[v]
        BY <1>0, <2>b DEF Idle
  <2>3. QED BY <1>2, <1>3, <2>a, <2>2 DEF StartPass
<1>4. ASSUME NEW w \in Workers, Claim(w)
      PROVE  InHand'
  <2>1. PICK item \in workers[w].due :
          \/ /\ workers'[w].pc \in {"prune", "claim"}
             /\ UNCHANGED calls
          \/ /\ workers'[w].pc = "calling"
             /\ workers'[w].item = [item EXCEPT !.attempts = @ + 1]
             /\ \E c \in Slots : \E stage \in {"running", "sent"} :
                  /\ InProcess \/ stage = "sent"
                  /\ calls[c] = NoCall
                  /\ calls' = [calls EXCEPT ![c] =
                        [key |-> item.key, id |-> item.id, by |-> w, stage |-> stage]]
        BY <1>4, ClaimEffect
  <2>2. workers[w].pc = "claim" /\ \A v \in Workers \ {w} : workers'[v] = workers[v]
        BY <1>4, ClaimEffect
  <2>3. CASE workers'[w].pc \in {"prune", "claim"} /\ UNCHANGED calls
        BY <1>2, <2>2, <2>3
  <2>4. ASSUME NEW c \in Slots, NEW stage, calls[c] = NoCall,
               workers'[w].pc = "calling",
               workers'[w].item = [item EXCEPT !.attempts = @ + 1],
               calls' = [calls EXCEPT ![c] =
                   [key |-> item.key, id |-> item.id, by |-> w, stage |-> stage]]
        PROVE  InHand'
    <3>1. item \in Item
          BY <1>0 DEF Worker
    <3>2. workers'[w].item # NoItem /\ workers'[w].item.key = item.key
      <4>1. item.attempts < MaxAttempts
            BY DEF OutboxInv, Counted
      <4>2. [item EXCEPT !.attempts = @ + 1] \in Item
            BY <3>1, <4>1, OutboxAssumption DEF Item
      <4>3. [item EXCEPT !.attempts = @ + 1].key = item.key
            BY <3>1 DEF Item
      <4>4. QED BY <2>4, <4>2, <4>3, NullAssumption
    <3>3. \A d \in Slots : calls[d] # NoCall /\ calls[d].by # NoItem => calls[d].by # w
          BY <1>0, <2>2 DEF InHand
    <3>4. /\ calls'[c].by = w /\ calls'[c].key = item.key
          /\ \A d \in Slots \ {c} : calls'[d] = calls[d]
          BY <1>0, <2>4
    <3>5. \A v \in Workers : workers'[v].pc \in {"calling", "update"} => workers'[v].item # NoItem
          BY <1>0, <2>2, <3>2 DEF InHand
    <3>6. \A d \in Slots : calls'[d] # NoCall /\ calls'[d].by # NoItem =>
            /\ workers'[calls'[d].by].pc = "calling"
            /\ workers'[calls'[d].by].item.key = calls'[d].key
      <4>1. ASSUME NEW d \in Slots \ {c}, calls'[d] # NoCall, calls'[d].by # NoItem
            PROVE  /\ workers'[calls'[d].by].pc = "calling"
                   /\ workers'[calls'[d].by].item.key = calls'[d].key
        <5>1. calls'[d] = calls[d] /\ calls[d].by \in Workers \ {w}
              BY <1>a, <3>3, <3>4, <4>1
        <5>2. QED BY <1>0, <2>2, <4>1, <5>1 DEF InHand
      <4>2. QED BY <2>4, <3>2, <3>4, <4>1
    <3>7. \A d, e \in Slots :
            (calls'[d] # NoCall /\ calls'[e] # NoCall /\ calls'[d].by = calls'[e].by
               /\ calls'[d].by # NoItem) => d = e
          BY <1>0, <3>3, <3>4 DEF InHand
    <3>8. QED BY <3>5, <3>6, <3>7 DEF InHand
  <2>5. QED BY <2>1, <2>3, <2>4
<1>5. ASSUME NEW w \in Workers, Update(w)
      PROVE  InHand'
  <2>1. workers' = [workers EXCEPT ![w] =
           [workers[w] EXCEPT !.pc = Onward(w), !.item = NoItem, !.outcome = "none"]]
        BY <1>0, <1>5 DEF Update
  <2>2. Onward(w) \in {"prune", "claim"}
        BY DEF Onward
  <2>3. workers'[w].pc = Onward(w) /\ \A v \in Workers \ {w} : workers'[v] = workers[v]
        BY <1>0, <2>1 DEF Worker
  <2>4. QED BY <1>2, <1>5, <2>2, <2>3 DEF Update
<1>6. ASSUME NEW w \in Workers, Prune(w)
      PROVE  InHand'
  <2>1. workers'[w].pc = "idle" /\ \A v \in Workers \ {w} : workers'[v] = workers[v]
        BY <1>0, <1>6 DEF Prune, Idle
  <2>2. QED BY <1>2, <1>6, <2>1 DEF Prune
<1>7. ASSUME NEW w \in Workers,
             \A v \in Workers \ {w} : workers'[v] = workers[v],
             workers'[w].pc \in {"calling", "update"} => workers'[w].item # NoItem,
             \A c \in Slots :
                IF calls[c] = NoCall \/ calls[c].by # w THEN calls'[c] = calls[c]
                ELSE calls'[c] = NoCall \/ calls'[c].by = NoItem
      PROVE  InHand'
      BY <1>0, <1>a, <1>7 DEF InHand
<1>8. ASSUME NEW w \in Workers, GiveUp(w)
      PROVE  InHand'
  <2>1. workers' = [workers EXCEPT ![w] = Told(workers[w], "failed")]
        BY <1>0, <1>8 DEF GiveUp
  <2>2. \A c \in Slots :
          IF calls[c] = NoCall \/ calls[c].by # w THEN calls'[c] = calls[c]
          ELSE calls'[c] = NoCall \/ calls'[c].by = NoItem
        BY <1>0, <1>8 DEF GiveUp, Call
  <2>3. workers'[w].item # NoItem /\ \A v \in Workers \ {w} : workers'[v] = workers[v]
        BY <1>0, <1>8, <2>1 DEF GiveUp, Worker, InHand, Told
  <2>4. QED BY <1>7, <2>2, <2>3
<1>9. ASSUME NEW w \in Workers, Crash(w)
      PROVE  InHand'
  <2>1. workers'[w].pc = "idle" /\ \A v \in Workers \ {w} : workers'[v] = workers[v]
        BY <1>0, <1>9 DEF Crash, Idle
  <2>2. \A c \in Slots :
          IF calls[c] = NoCall \/ calls[c].by # w THEN calls'[c] = calls[c]
          ELSE calls'[c] = NoCall \/ calls'[c].by = NoItem
        BY <1>0, <1>9 DEF Crash, Call
  <2>3. QED BY <1>7, <2>1, <2>2
<1>10. ASSUME NEW c \in Slots, CallStep(c) \/ ReceiverDies(c)
       PROVE  InHand'
  <2>1. calls[c] \in Call /\ calls[c] # NoCall
        BY <1>10, CallEffect
  <2>2. CASE \E stage \in {"running", "ran"} :
                calls' = [calls EXCEPT ![c].stage = stage] /\ UNCHANGED workers
    <3>1. /\ calls'[c].by = calls[c].by /\ calls'[c].key = calls[c].key
          /\ \A d \in Slots \ {c} : calls'[d] = calls[d]
          BY <1>0, <2>1, <2>2 DEF Call
    <3>2. QED BY <1>0, <2>1, <2>2, <3>1 DEF InHand
  <2>3. ASSUME NEW outcome \in {"ok", "failed", "rejected"}, Ends(c, outcome)
        PROVE  InHand'
    <3>1. /\ calls'[c] = NoCall
          /\ \A d \in Slots \ {c} : calls'[d] = calls[d]
          /\ \A w \in Workers :
               /\ workers'[w].item = workers[w].item
               /\ w # calls[c].by => workers'[w] = workers[w]
          BY <2>1, <2>3, EndsEffect
    <3>2. \A w \in Workers : w = calls[c].by => workers[w].item # NoItem
          BY <1>0, <2>1, NullAssumption DEF InHand
    <3>3. \A d \in Slots \ {c} : calls[d] # NoCall /\ calls[d].by # NoItem =>
            calls[d].by # calls[c].by
          BY <1>0, <2>1 DEF InHand
    <3>4. QED BY <1>0, <1>a, <3>1, <3>2, <3>3 DEF InHand
  <2>4. QED BY <1>10, <2>2, <2>3, CallEffect
<1>11. CASE Tick
  <2>1. /\ workers' = [w \in Workers |-> IF workers[w].pc = "idle" THEN workers[w]
                                        ELSE [workers[w] EXCEPT !.since = @ + 1]]
        /\ UNCHANGED calls
        BY <1>11 DEF Tick
  <2>2. \A w \in Workers : workers'[w].pc = workers[w].pc /\ workers'[w].item = workers[w].item
        BY <1>0, <2>1 DEF Worker
  <2>3. QED BY <1>0, <1>a, <2>1, <2>2 DEF InHand
<1>12. QED
       BY <1>1, <1>3, <1>4, <1>5, <1>6, <1>8, <1>9, <1>10, <1>11
       DEF Next, WorkerStep, Enqueue, PurgeDead

\* Every step counts only attempts made.
LEMMA CountedStep ==
    ASSUME OutboxInv, Next
    PROVE  Counted'
<1>0. TypeOK /\ Counted /\ workers \in [Workers -> Worker]
      BY DEF OutboxInv, TypeOK
<1>a. ASSUME NEW k \in Keys, box[k] # NoEntry
      PROVE  /\ box[k].id \in Ids /\ box[k].attempts \in 0 .. MaxAttempts
             /\ DOMAIN box[k] = {"id", "status", "attempts", "wait", "since", "held"}
      BY <1>0, <1>a DEF TypeOK, Entry
<1>b. \A w \in Workers : workers[w].due \in SUBSET Item
                         /\ workers[w].item \in Item \cup {NoItem}
      BY <1>0 DEF Worker
<1>c. \A item \in Item : item.key \in Keys /\ item.id \in Ids /\ item.attempts \in Nat
      BY OutboxAssumption DEF Item
<1>1. ASSUME UNCHANGED tries,
             \A k \in Keys : box'[k] # NoEntry =>
                \/ box[k] # NoEntry /\ box'[k].id = box[k].id
                      /\ box'[k].attempts = box[k].attempts /\ box'[k].status = box[k].status
                \/ /\ box'[k].attempts <= tries[k][box'[k].id]
                   /\ Open(box'[k]) => box'[k].attempts < MaxAttempts,
             \A w \in Workers : \A item \in workers'[w].due :
                \/ item \in workers[w].due
                \/ item.attempts <= tries[item.key][item.id] /\ item.attempts < MaxAttempts,
             \A w \in Workers : workers'[w].item \in {NoItem, workers[w].item}
      PROVE  Counted'
  <2>1. \A k \in Keys : box'[k] # NoEntry =>
          /\ box'[k].attempts <= tries[k][box'[k].id]
          /\ Open(box'[k]) => box'[k].attempts < MaxAttempts
        BY <1>0, <1>1 DEF Counted, Open
  <2>2. \A w \in Workers : \A item \in workers'[w].due :
          item.attempts <= tries[item.key][item.id] /\ item.attempts < MaxAttempts
        BY <1>0, <1>1 DEF Counted
  <2>3. \A w \in Workers : workers'[w].item # NoItem =>
          workers'[w].item.attempts <= tries[workers'[w].item.key][workers'[w].item.id]
        BY <1>0, <1>1 DEF Counted
  <2>4. QED BY <1>1, <2>1, <2>2, <2>3 DEF Counted, Open
<1>2. ASSUME NEW k \in Keys, Enqueue(k)
      PROVE  Counted'
  <2>1. made[k] + 1 \in Ids
        BY <1>0, <1>2, OutboxAssumption DEF Enqueue, TypeOK, Ids
  <2>2. tries[k][made[k] + 1] >= 0 /\ tries[k][made[k] + 1] \in Int
        BY <1>0, <2>1, OutboxAssumption DEF TypeOK
  <2>3. /\ UNCHANGED <<tries, workers>>
        /\ \A j \in Keys \ {k} : box'[j] = box[j]
        /\ box'[k] = [id |-> made[k] + 1, status |-> "pending", attempts |-> 0,
                      wait |-> 0, since |-> 0, held |-> 0]
        BY <1>0, <1>2 DEF Enqueue, TypeOK
  <2>4. QED BY <1>1, <2>2, <2>3, OutboxAssumption
<1>3. ASSUME NEW w \in Workers, StartPass(w)
      PROVE  Counted'
  <2>1. PICK ks \in SUBSET {k \in Keys : Open(box[k]) /\ box[k].wait <= 0} :
            workers' = [workers EXCEPT ![w] =
              [Idle EXCEPT
                 !.pc  = IF ks = {} THEN "prune" ELSE "claim",
                 !.due = {[key |-> k, id |-> box[k].id, attempts |-> box[k].attempts] :
                             k \in ks}]]
        BY <1>3 DEF StartPass
  <2> DEFINE due == {[key |-> k, id |-> box[k].id, attempts |-> box[k].attempts] : k \in ks}
             pc  == IF ks = {} THEN "prune" ELSE "claim"
  <2>2. \A item \in due : item.attempts <= tries[item.key][item.id] /\ item.attempts < MaxAttempts
        BY <1>0, <2>1 DEF Counted, Open
  <2>3. workers' = [workers EXCEPT ![w] = [Idle EXCEPT !.pc = pc, !.due = due]]
        BY <2>1
  <2> HIDE DEF due, pc
  <2>4. workers'[w].due = due /\ workers'[w].item = NoItem
        /\ \A v \in Workers \ {w} : workers'[v] = workers[v]
        BY <1>0, <2>3 DEF Idle
  <2>5. UNCHANGED <<box, tries>>
        BY <1>3 DEF StartPass
  <2>6. QED BY <1>1, <2>2, <2>4, <2>5
<1>4. ASSUME NEW w \in Workers, Claim(w)
      PROVE  Counted'
  <2>1. PICK item \in workers[w].due :
                \/ /\ workers'[w].item = workers[w].item
                   /\ UNCHANGED <<box, tries>>
                \/ /\ workers'[w].item = [item EXCEPT !.attempts = @ + 1]
                   /\ Open(box[item.key])
                   /\ Claimable(box[item.key], item, workers[w].since)
                   /\ box' = [box EXCEPT ![item.key] = Claimed(box[item.key], workers[w].since)]
                   /\ tries' = [tries EXCEPT ![item.key][item.id] =
                                    Smaller(MaxAttempts + 1, @ + 1)]
        BY <1>4, ClaimEffect
  <2>2. /\ workers'[w].due \subseteq workers[w].due
        /\ \A v \in Workers \ {w} : workers'[v] = workers[v]
        BY <1>4, ClaimEffect
  <2>3. /\ item \in Item /\ item.attempts <= tries[item.key][item.id]
        /\ item.attempts < MaxAttempts
        BY <1>0, <1>b DEF Counted
  <2>4. CASE workers'[w].item = workers[w].item /\ UNCHANGED <<box, tries>>
        BY <1>1, <2>2, <2>4
  <2>5. CASE /\ workers'[w].item = [item EXCEPT !.attempts = @ + 1]
             /\ Open(box[item.key])
             /\ box' = [box EXCEPT ![item.key] = Claimed(box[item.key], workers[w].since)]
             /\ tries' = [tries EXCEPT ![item.key][item.id] = Smaller(MaxAttempts + 1, @ + 1)]
    <3>1. item.key \in Keys /\ item.id \in Ids /\ item.attempts \in Nat
          BY <1>c, <2>3
    <3>2. \A k \in Keys, n \in Ids : tries[k][n] \in 0 .. MaxAttempts + 1
          BY <1>0 DEF TypeOK
    <3>3. /\ \A k \in Keys, n \in Ids : <<k, n>> # <<item.key, item.id>> => tries'[k][n] = tries[k][n]
          /\ tries'[item.key][item.id] = Smaller(MaxAttempts + 1, tries[item.key][item.id] + 1)
          BY <1>0, <2>5, <3>1 DEF TypeOK
    <3>4. \A k \in Keys, n \in Ids : tries'[k][n] \in Int /\ tries[k][n] <= tries'[k][n]
          BY <3>1, <3>2, <3>3, OutboxAssumption DEF Smaller
    <3>5. item.attempts + 1 <= tries'[item.key][item.id]
          BY <2>3, <3>1, <3>2, <3>3, OutboxAssumption DEF Smaller
    <3>6. ASSUME NEW k \in Keys, box'[k] # NoEntry
          PROVE  box[k] # NoEntry /\ box'[k].id = box[k].id /\ box'[k].attempts = box[k].attempts
                 /\ Open(box[k]) = Open(box'[k])
      <4>1. CASE k # item.key
            BY <1>0, <2>5, <3>1, <3>6, <4>1 DEF TypeOK
      <4>2. CASE k = item.key
        <5>1. box[k] # NoEntry
              BY <2>5, <4>2 DEF Open
        <5>2. box'[k] = Claimed(box[k], workers[w].since)
              BY <1>0, <2>5, <4>2 DEF TypeOK
        <5>3. /\ box'[k].id = box[k].id /\ box'[k].attempts = box[k].attempts
              /\ box'[k].status = "delivering"
              BY <1>a, <5>1, <5>2 DEF Claimed
        <5>4. QED BY <2>5, <3>6, <4>2, <5>1, <5>3 DEF Open
      <4>3. QED BY <4>1, <4>2
    <3>7. \A k \in Keys : box'[k] # NoEntry =>
            /\ box'[k].attempts <= tries'[k][box'[k].id]
            /\ Open(box'[k]) => box'[k].attempts < MaxAttempts
      <4>1. ASSUME NEW k \in Keys, box'[k] # NoEntry
            PROVE  /\ box'[k].attempts <= tries'[k][box'[k].id]
                   /\ Open(box'[k]) => box'[k].attempts < MaxAttempts
        <5>1. /\ box[k].attempts <= tries[k][box[k].id]
              /\ Open(box[k]) => box[k].attempts < MaxAttempts
              BY <1>0, <3>6, <4>1 DEF Counted
        <5>2. /\ box[k].id \in Ids /\ box[k].attempts \in Int /\ tries[k][box[k].id] \in Int
              /\ tries'[k][box[k].id] \in Int /\ tries[k][box[k].id] <= tries'[k][box[k].id]
              BY <1>a, <3>2, <3>4, <3>6, <4>1
        <5>3. box[k].attempts <= tries'[k][box[k].id]
              BY <5>1, <5>2
        <5>4. QED BY <3>6, <4>1, <5>1, <5>3
      <4>2. QED BY <4>1
    <3>8. \A it \in Item : it.attempts <= tries[it.key][it.id] => it.attempts <= tries'[it.key][it.id]
      <4>1. ASSUME NEW it \in Item, it.attempts <= tries[it.key][it.id]
            PROVE  it.attempts <= tries'[it.key][it.id]
        <5>1. /\ it.attempts \in Int /\ tries[it.key][it.id] \in Int
              /\ tries'[it.key][it.id] \in Int /\ tries[it.key][it.id] <= tries'[it.key][it.id]
              BY <1>c, <3>2, <3>4
        <5>2. QED BY <4>1, <5>1
      <4>2. QED BY <4>1
    <3>9. \A v \in Workers : \A it \in workers'[v].due :
            it.attempts <= tries'[it.key][it.id] /\ it.attempts < MaxAttempts
          BY <1>0, <1>b, <2>2, <3>8 DEF Counted
    <3>10. \A v \in Workers \ {w} : workers'[v].item # NoItem =>
             workers'[v].item.attempts <= tries'[workers'[v].item.key][workers'[v].item.id]
           BY <1>0, <1>b, <2>2, <3>8 DEF Counted
    <3>11. workers'[w].item.attempts <= tries'[workers'[w].item.key][workers'[w].item.id]
      <4>1. /\ workers'[w].item.attempts = item.attempts + 1
            /\ workers'[w].item.key = item.key /\ workers'[w].item.id = item.id
            BY <2>3, <2>5 DEF Item
      <4>2. QED BY <3>5, <4>1
    <3>12. QED BY <3>7, <3>9, <3>10, <3>11 DEF Counted, Open
  <2>6. QED BY <2>1, <2>4, <2>5
<1>5. ASSUME NEW w \in Workers, Update(w)
      PROVE  Counted'
  <2> DEFINE item == workers[w].item
             row  == box[item.key]
  <2>1. item \in Item
        BY <1>5, <1>b DEF OutboxInv, InHand, Update
  <2>2. /\ item.attempts <= tries[item.key][item.id]
        BY <1>0, <2>1, NullAssumption DEF Counted
  <2>3. item.key \in Keys /\ item.attempts \in Nat
        BY <1>c, <2>1
  <2>4. UNCHANGED tries /\ \A k \in Keys \ {item.key} : box'[k] = box[k]
        BY <1>0, <1>5 DEF Update, TypeOK
  <2>5. CASE row = NoEntry \/ row.id # item.id
        BY <1>0, <1>1, <1>5, <2>5 DEF Update, Worker
  <2>6. CASE row # NoEntry /\ row.id = item.id
    <3>1. box'[item.key] = Updated(row, item, workers[w].outcome)
          BY <1>0, <1>5, <2>3, <2>6 DEF Update, TypeOK
    <3>2. DOMAIN row = {"id", "status", "attempts", "wait", "since", "held"}
          BY <1>a, <2>3, <2>6
    <3>3. /\ Updated(row, item, workers[w].outcome).id = row.id
          /\ Updated(row, item, workers[w].outcome).attempts = item.attempts
          /\ item.attempts >= MaxAttempts =>
                Updated(row, item, workers[w].outcome).status \in {"delivered", "dead"}
          BY <3>2 DEF Updated
    <3>4. /\ box'[item.key].attempts <= tries[item.key][box'[item.key].id]
          /\ Open(box'[item.key]) => box'[item.key].attempts < MaxAttempts
          BY <2>2, <2>3, <2>6, <3>1, <3>3, OutboxAssumption DEF Open
    <3>5. \A v \in Workers : workers'[v].due = workers[v].due
                            /\ workers'[v].item \in {NoItem, workers[v].item}
          BY <1>0, <1>5 DEF Update, Worker
    <3>6. QED BY <1>1, <2>4, <3>4, <3>5
  <2>7. QED BY <2>5, <2>6
<1>6. ASSUME NEW w \in Workers, Prune(w) \/ GiveUp(w) \/ Crash(w)
      PROVE  Counted'
  <2>1. \A k \in Keys : box'[k] # NoEntry => box'[k] = box[k]
        BY <1>6 DEF Prune, GiveUp, Crash
  <2>2. \A v \in Workers : /\ workers'[v].due \subseteq workers[v].due
                          /\ workers'[v].item \in {NoItem, workers[v].item}
    <3>1. CASE Prune(w)
          BY <1>0, <3>1 DEF Prune, Idle
    <3>2. CASE GiveUp(w)
      <4>1. workers[w] \in Worker /\ workers' = [workers EXCEPT ![w] = Told(workers[w], "failed")]
            BY <1>0, <3>2 DEF GiveUp
      <4>2. /\ Told(workers[w], "failed").due = workers[w].due
            /\ Told(workers[w], "failed").item = workers[w].item
            BY <4>1 DEF Told, Worker
      <4>3. QED BY <1>0, <4>1, <4>2
    <3>3. CASE Crash(w)
          BY <1>0, <3>3 DEF Crash, Idle
    <3>4. QED BY <1>6, <3>1, <3>2, <3>3
  <2>3. UNCHANGED tries
        BY <1>6 DEF Prune, GiveUp, Crash
  <2>4. QED BY <1>1, <2>1, <2>2, <2>3
<1>7. ASSUME NEW c \in Slots, CallStep(c) \/ ReceiverDies(c)
      PROVE  Counted'
  <2>1. \A w \in Workers : workers'[w].due = workers[w].due /\ workers'[w].item = workers[w].item
    <3>1. CASE UNCHANGED workers
          BY <3>1
    <3>2. CASE \E outcome \in {"ok", "failed", "rejected"} : Ends(c, outcome)
          BY <1>7, <3>2, CallEffect, EndsEffect
    <3>3. QED BY <1>7, <3>1, <3>2, CallEffect
  <2>2. UNCHANGED <<box, tries>>
        BY <1>7, CallEffect
  <2>3. QED BY <1>1, <2>1, <2>2
<1>8. CASE PurgeDead
      BY <1>1, <1>8 DEF PurgeDead
<1>9. CASE Tick
  <2>1. \A w \in Workers : workers'[w].due = workers[w].due /\ workers'[w].item = workers[w].item
    <3>1. workers' = [w \in Workers |-> IF workers[w].pc = "idle" THEN workers[w]
                                        ELSE [workers[w] EXCEPT !.since = @ + 1]]
          BY <1>9 DEF Tick
    <3>2. QED BY <1>0, <3>1 DEF Worker
  <2>2. ASSUME NEW k \in Keys, box'[k] # NoEntry
        PROVE  box[k] # NoEntry /\ box'[k].id = box[k].id
                 /\ box'[k].attempts = box[k].attempts /\ box'[k].status = box[k].status
    <3>1. box[k] # NoEntry
          BY <1>9, <2>2 DEF Tick
    <3>2. PICK wait, since, held :
              box'[k] = [box[k] EXCEPT !.wait = wait, !.since = since, !.held = held]
          BY <1>9, <3>1 DEF Tick
    <3>3. QED BY <1>a, <3>1, <3>2
  <2>3. UNCHANGED tries
        BY <1>9 DEF Tick
  <2>4. QED BY <1>1, <2>1, <2>2, <2>3
<1>10. QED
       BY <1>2, <1>3, <1>4, <1>5, <1>6, <1>7, <1>8, <1>9 DEF Next, WorkerStep

\* Every step has the walker run before anything says so.
LEMMA RanFirstStep ==
    ASSUME OutboxInv, Next
    PROVE  RanFirst'
<1> DEFINE BoxSo == \A k \in Keys : box'[k] # NoEntry /\ box'[k].status = "delivered" =>
                        \/ box[k] # NoEntry /\ box[k].status = "delivered"
                        \/ Ran(k)'
           SeenSo == \A k \in Keys : seen'[k] > 0 => seen[k] > 0 \/ Ran(k)'
           CallsSo == \A c \in Slots : calls'[c] # NoCall /\ calls'[c].stage = "ran" =>
                        \E k \in Keys :
                          /\ k = calls'[c].key
                          /\ \/ Ran(k)'
                             \/ calls[c] # NoCall /\ calls[c].stage = "ran" /\ calls[c].key = k
           WorkerSo(w) == workers'[w].outcome = "ok" =>
                        /\ workers'[w].pc = "update"
                        /\ \E k \in Keys :
                          /\ k = workers'[w].item.key
                          /\ \/ Ran(k)'
                             \/ workers[w].outcome = "ok" /\ workers[w].item.key = k
<1>0. TypeOK /\ RanFirst /\ InHand /\ workers \in [Workers -> Worker]
      /\ calls \in [Slots -> Call \cup {NoCall}]
      BY DEF OutboxInv, TypeOK
<1>a. \A k \in Keys : Ran(k) => Ran(k)'
      BY <1>0, RunsStay
<1>b. ASSUME NEW k \in Keys, box[k] # NoEntry
      PROVE  DOMAIN box[k] = {"id", "status", "attempts", "wait", "since", "held"}
      BY <1>0, <1>b DEF TypeOK, Entry
<1>c. \A c \in Slots : calls[c] # NoCall => calls[c].key \in Keys
      BY <1>0 DEF Call
<1>d. \A w \in Workers : workers[w].outcome = "ok" => workers[w].item.key \in Keys
      BY <1>0 DEF RanFirst, InHand, Worker, Item
<1>1. ASSUME BoxSo, SeenSo, CallsSo, \A w \in Workers : WorkerSo(w)
      PROVE  RanFirst'
  <2>1. \A k \in Keys : box'[k] # NoEntry /\ box'[k].status = "delivered" => Ran(k)'
        BY <1>0, <1>a, <1>1 DEF RanFirst
  <2>2. \A k \in Keys : seen'[k] > 0 => Ran(k)'
        BY <1>0, <1>a, <1>1 DEF RanFirst
  <2>3. \A c \in Slots : calls'[c] # NoCall /\ calls'[c].stage = "ran" =>
          \E k \in Keys : k = calls'[c].key /\ Ran(k)'
        BY <1>0, <1>a, <1>1 DEF RanFirst
  <2>4. \A w \in Workers : workers'[w].outcome = "ok" =>
          workers'[w].pc = "update" /\ \E k \in Keys : k = workers'[w].item.key /\ Ran(k)'
        BY <1>0, <1>a, <1>1 DEF RanFirst
  <2>5. QED BY <2>1, <2>2, <2>3, <2>4 DEF RanFirst, Ran
<1>2. ASSUME NEW w \in Workers, workers'[w].pc = workers[w].pc,
             workers'[w].item = workers[w].item, workers'[w].outcome = workers[w].outcome
      PROVE  WorkerSo(w)
      BY <1>0, <1>d, <1>2 DEF RanFirst
<1>3. UNCHANGED box => BoxSo
      OBVIOUS
<1>4. UNCHANGED seen => SeenSo
      OBVIOUS
<1>5. UNCHANGED calls => CallsSo
      BY <1>c
<1>6. ASSUME NEW k \in Keys, Enqueue(k)
      PROVE  RanFirst'
  <2>1. /\ UNCHANGED <<seen, calls, workers>>
        /\ \A j \in Keys \ {k} : box'[j] = box[j]
        /\ box'[k].status = "pending"
        BY <1>0, <1>6 DEF Enqueue, TypeOK
  <2>2. BoxSo
        BY <2>1
  <2> HIDE DEF BoxSo, SeenSo, CallsSo, WorkerSo
  <2>3. QED BY <1>1, <1>2, <1>4, <1>5, <2>1, <2>2
<1>7. ASSUME NEW w \in Workers, workers'[w].outcome # "ok",
             \A v \in Workers \ {w} : workers'[v] = workers[v]
      PROVE  \A v \in Workers : WorkerSo(v)
  <2>1. WorkerSo(w)
        BY <1>7
  <2> HIDE DEF WorkerSo
  <2>2. QED BY <1>2, <1>7, <2>1
<1>8. ASSUME NEW w \in Workers, StartPass(w)
      PROVE  RanFirst'
  <2>1. PICK pc, due : workers' = [workers EXCEPT ![w] = [Idle EXCEPT !.pc = pc, !.due = due]]
        BY <1>8 DEF StartPass
  <2>2. workers'[w].outcome = "none" /\ \A v \in Workers \ {w} : workers'[v] = workers[v]
        BY <1>0, <2>1 DEF Idle
  <2>3. UNCHANGED <<box, seen, calls>>
        BY <1>8 DEF StartPass
  <2> HIDE DEF BoxSo, SeenSo, CallsSo, WorkerSo
  <2>4. QED BY <1>1, <1>3, <1>4, <1>5, <1>7, <2>2, <2>3
<1>9. ASSUME NEW w \in Workers, Claim(w)
      PROVE  RanFirst'
  <2>1. PICK item \in workers[w].due :
                \/ UNCHANGED <<box, calls>>
                \/ /\ Open(box[item.key])
                   /\ box' = [box EXCEPT ![item.key] = Claimed(box[item.key], workers[w].since)]
                   /\ \E c \in Slots : \E stage \in {"running", "sent"} :
                        /\ InProcess \/ stage = "sent"
                        /\ calls[c] = NoCall
                        /\ calls' = [calls EXCEPT ![c] =
                              [key |-> item.key, id |-> item.id, by |-> w,
                               stage |-> stage]]
        BY <1>9, ClaimEffect
  <2>2. /\ UNCHANGED seen
        /\ \A v \in Workers \ {w} : workers'[v] = workers[v]
        /\ workers'[w].outcome # "ok"
        BY <1>0, <1>9, ClaimEffect DEF RanFirst
  <2>3. CASE UNCHANGED <<box, calls>>
    <3> HIDE DEF BoxSo, SeenSo, CallsSo, WorkerSo
    <3>1. QED BY <1>1, <1>3, <1>4, <1>5, <1>7, <2>2, <2>3
  <2>4. ASSUME NEW c \in Slots, NEW stage \in {"running", "sent"},
               Open(box[item.key]),
               box' = [box EXCEPT ![item.key] = Claimed(box[item.key], workers[w].since)],
               calls' = [calls EXCEPT ![c] =
                   [key |-> item.key, id |-> item.id, by |-> w, stage |-> stage]]
        PROVE  RanFirst'
    <3>1. item.key \in Keys
          BY <1>0 DEF Worker, Item
    <3>2. box'[item.key].status # "delivered"
      <4>1. box[item.key] # NoEntry
            BY <2>4 DEF Open
      <4>2. box'[item.key] = Claimed(box[item.key], workers[w].since)
            BY <1>0, <2>4, <3>1 DEF TypeOK
      <4>3. QED BY <1>b, <3>1, <4>1, <4>2 DEF Claimed
    <3>3. \A k \in Keys \ {item.key} : box'[k] = box[k]
          BY <1>0, <2>4 DEF TypeOK
    <3>4. BoxSo
          BY <3>2, <3>3
    <3>5. calls'[c].stage # "ran" /\ \A d \in Slots \ {c} : calls'[d] = calls[d]
          BY <1>0, <2>4
    <3>6. CallsSo
          BY <1>c, <3>5
    <3> HIDE DEF BoxSo, SeenSo, CallsSo, WorkerSo
    <3>7. QED BY <1>1, <1>4, <1>7, <2>2, <3>4, <3>6
  <2>5. QED BY <2>1, <2>3, <2>4
<1>10. ASSUME NEW w \in Workers, Update(w)
       PROVE  RanFirst'
  <2> DEFINE item == workers[w].item
             row  == box[item.key]
  <2>1. item.key \in Keys
        BY <1>0, <1>10, NullAssumption DEF InHand, Update, Worker, Item
  <2>2. /\ UNCHANGED <<seen, calls>> /\ \A k \in Keys \ {item.key} : box'[k] = box[k]
        BY <1>0, <1>10 DEF Update, TypeOK
  <2>3. workers'[w].outcome # "ok" /\ \A v \in Workers \ {w} : workers'[v] = workers[v]
        BY <1>0, <1>10 DEF Update, Worker
  <2>4. BoxSo
    <3>1. CASE row = NoEntry \/ row.id # item.id
          BY <1>10, <3>1 DEF Update
    <3>2. CASE row # NoEntry /\ row.id = item.id
      <4>1. box'[item.key] = Updated(row, item, workers[w].outcome)
            BY <1>0, <1>10, <2>1, <3>2 DEF Update, TypeOK
      <4>2. workers[w].outcome # "ok" => box'[item.key].status # "delivered"
            BY <1>b, <2>1, <3>2, <4>1 DEF Updated
      <4>3. workers[w].outcome = "ok" => Ran(item.key)
            BY <1>0 DEF RanFirst
      <4>4. \A k \in Keys : k = item.key => (Ran(item.key) => Ran(k)')
            BY <1>a
      <4>5. QED BY <2>2, <4>2, <4>3, <4>4
    <3>3. QED BY <3>1, <3>2
  <2> HIDE DEF BoxSo, SeenSo, CallsSo, WorkerSo
  <2>5. QED BY <1>1, <1>4, <1>5, <1>7, <2>2, <2>3, <2>4
<1>11. ASSUME NEW w \in Workers, Prune(w) \/ GiveUp(w) \/ Crash(w)
       PROVE  RanFirst'
  <2>1. \A k \in Keys : box'[k] # NoEntry => box'[k] = box[k]
        BY <1>11 DEF Prune, GiveUp, Crash
  <2>2. workers'[w].outcome # "ok" /\ \A v \in Workers \ {w} : workers'[v] = workers[v]
    <3>1. CASE Prune(w)
          BY <1>0, <3>1 DEF Prune, Idle
    <3>2. CASE GiveUp(w)
      <4>1. workers[w] \in Worker /\ workers' = [workers EXCEPT ![w] = Told(workers[w], "failed")]
            BY <1>0, <3>2 DEF GiveUp
      <4>2. Told(workers[w], "failed").outcome = "failed"
            BY <4>1 DEF Told, Worker
      <4>3. QED BY <1>0, <4>1, <4>2
    <3>3. CASE Crash(w)
          BY <1>0, <3>3 DEF Crash, Idle
    <3>4. QED BY <1>11, <3>1, <3>2, <3>3
  <2>3. UNCHANGED seen
        BY <1>11 DEF Prune, GiveUp, Crash
  <2>4. \A c \in Slots : calls'[c] # NoCall =>
          /\ calls[c] # NoCall
          /\ calls'[c].key = calls[c].key /\ calls'[c].stage = calls[c].stage
        BY <1>0, <1>11 DEF Prune, GiveUp, Crash, Call
  <2>5. BoxSo /\ CallsSo
        BY <1>c, <2>1, <2>4
  <2> HIDE DEF BoxSo, SeenSo, CallsSo, WorkerSo
  <2>6. QED BY <1>1, <1>4, <1>7, <2>2, <2>3, <2>5
<1>12. ASSUME NEW c \in Slots, CallStep(c) \/ ReceiverDies(c)
       PROVE  RanFirst'
  <2> DEFINE key == calls[c].key
  <2>1. /\ UNCHANGED box /\ calls[c] \in Call /\ calls[c] # NoCall /\ key \in Keys
        BY <1>12, CallEffect
  <2>2. SeenSo
    <3>1. CASE UNCHANGED seen
          BY <3>1
    <3>2. CASE Remember(c)
      <4>1. /\ calls[c].stage = "ran"
            /\ \A k \in Keys \ {key} : seen'[k] = seen[k]
            BY <1>0, <3>2 DEF Remember, TypeOK
      <4>2. \A k \in Keys : k = key => Ran(k)'
            BY <1>0, <1>a, <2>1, <4>1 DEF RanFirst
      <4>3. QED BY <4>1, <4>2
    <3>3. QED BY <1>12, <3>1, <3>2 DEF CallStep, Receive, RunWalker, ReceiverDies
  <2>3. CASE calls' = [calls EXCEPT ![c].stage = "running"] /\ UNCHANGED workers
    <3>1. calls'[c].stage = "running" /\ \A d \in Slots \ {c} : calls'[d] = calls[d]
          BY <1>0, <2>1, <2>3 DEF Call
    <3>2. CallsSo
          BY <1>c, <3>1
    <3> HIDE DEF BoxSo, SeenSo, CallsSo, WorkerSo
    <3>3. QED BY <1>1, <1>2, <1>3, <2>1, <2>2, <2>3, <3>2
  <2>4. ASSUME NEW k \in Keys, k = key, Ran(k)',
               calls' = [calls EXCEPT ![c].stage = "ran"], UNCHANGED workers
        PROVE  RanFirst'
    <3>1. calls'[c].key = k /\ \A d \in Slots \ {c} : calls'[d] = calls[d]
          BY <1>0, <2>1, <2>4 DEF Call
    <3>2. CallsSo
          BY <1>c, <2>4, <3>1
    <3> HIDE DEF BoxSo, SeenSo, CallsSo, WorkerSo
    <3>3. QED BY <1>1, <1>2, <1>3, <2>1, <2>2, <2>4, <3>2
  <2>5. ASSUME NEW k \in Keys, k = key, NEW outcome \in {"ok", "failed", "rejected"},
               Ends(c, outcome), outcome = "ok" => Ran(k)'
        PROVE  RanFirst'
    <3>1. /\ calls'[c] = NoCall
          /\ \A d \in Slots \ {c} : calls'[d] = calls[d]
          /\ \A w \in Workers :
               /\ workers'[w].item = workers[w].item
               /\ w # calls[c].by => workers'[w] = workers[w]
               /\ w = calls[c].by =>
                     workers'[w].pc = "update" /\ workers'[w].outcome = outcome
          BY <2>1, <2>5, EndsEffect
    <3>2. CallsSo
          BY <1>c, <3>1
    <3>3. ASSUME NEW w \in Workers, w = calls[c].by
          PROVE  WorkerSo(w)
      <4>1. workers[w].item.key = k
            BY <1>0, <2>1, <2>5, <3>3, NullAssumption DEF InHand
      <4>2. QED BY <2>5, <3>1, <3>3, <4>1
    <3> HIDE DEF BoxSo, SeenSo, CallsSo, WorkerSo
    <3>4. \A w \in Workers : WorkerSo(w)
          BY <1>2, <3>1, <3>3
    <3>5. QED BY <1>1, <1>3, <2>1, <2>2, <3>2, <3>4
  <2>6. \A k \in Keys : k = key =>
          \/ calls' = [calls EXCEPT ![c].stage = "running"] /\ UNCHANGED workers
          \/ calls' = [calls EXCEPT ![c].stage = "ran"] /\ UNCHANGED workers /\ Ran(k)'
          \/ \E outcome \in {"ok", "failed", "rejected"} :
                Ends(c, outcome) /\ (outcome = "ok" => Ran(k)')
        BY <1>12, CallEffect
  <2>7. PICK k \in Keys : k = key
        BY <2>1
  <2>8. QED BY <2>3, <2>4, <2>5, <2>6, <2>7
<1>13. CASE PurgeDead
  <2>1. /\ UNCHANGED <<seen, workers, calls>>
        /\ \A k \in Keys : box'[k] # NoEntry => box'[k] = box[k]
        BY <1>13 DEF PurgeDead
  <2>2. BoxSo
        BY <2>1
  <2> HIDE DEF BoxSo, SeenSo, CallsSo, WorkerSo
  <2>3. QED BY <1>1, <1>2, <1>4, <1>5, <2>1, <2>2
<1>14. CASE Tick
  <2>1. \A w \in Workers : workers'[w].pc = workers[w].pc
           /\ workers'[w].item = workers[w].item /\ workers'[w].outcome = workers[w].outcome
    <3>1. workers' = [w \in Workers |-> IF workers[w].pc = "idle" THEN workers[w]
                                        ELSE [workers[w] EXCEPT !.since = @ + 1]]
          BY <1>14 DEF Tick
    <3>2. QED BY <1>0, <3>1 DEF Worker
  <2>2. ASSUME NEW k \in Keys, box'[k] # NoEntry
        PROVE  box[k] # NoEntry /\ box'[k].status = box[k].status
    <3>1. box[k] # NoEntry
          BY <1>14, <2>2 DEF Tick
    <3>2. PICK wait, since, held :
              box'[k] = [box[k] EXCEPT !.wait = wait, !.since = since, !.held = held]
          BY <1>14, <3>1 DEF Tick
    <3>3. QED BY <1>b, <3>1, <3>2
  <2>3. BoxSo
        BY <2>2
  <2>4. SeenSo
    <3>1. seen' = [k \in Keys |-> Larger(0, seen[k] - 1)] /\ seen \in [Keys -> 0 .. Ttl]
          BY <1>0, <1>14 DEF Tick, TypeOK
    <3>2. QED BY <3>1, OutboxAssumption DEF Larger
  <2>5. UNCHANGED calls
        BY <1>14 DEF Tick
  <2> HIDE DEF BoxSo, SeenSo, CallsSo, WorkerSo
  <2>6. QED BY <1>1, <1>2, <1>5, <2>1, <2>3, <2>4, <2>5
<1>15. QED
       BY <1>6, <1>8, <1>9, <1>10, <1>11, <1>12, <1>13, <1>14 DEF Next, WorkerStep

-----------------------------------------------------------------------------
\* Nothing has happened at the start.
LEMMA OutboxInit ==
    ASSUME Init
    PROVE  OutboxInv
<1> USE OutboxAssumption
<1>1. TypeOK
      BY DEF Init, TypeOK, Idle, Worker
<1>2. InHand /\ Counted /\ RanFirst
      BY DEF Init, InHand, Counted, RanFirst, Idle
<1>3. QED BY <1>1, <1>2 DEF OutboxInv

\* The invariant is inductive.
LEMMA OutboxStep ==
    ASSUME OutboxInv, [Next]_vars
    PROVE  OutboxInv'
<1>1. CASE Next
      BY <1>1, TypesStep, InHandStep, CountedStep, RanFirstStep DEF OutboxInv
<1>2. CASE UNCHANGED vars
      BY <1>2 DEF vars, OutboxInv, TypeOK, InHand, Counted, RanFirst, Ran, Open
<1>3. QED BY <1>1, <1>2

\* The invariant holds throughout.
LEMMA OutboxInvariant == Spec => []OutboxInv
<1>1. QED BY OutboxInit, OutboxStep, PTL DEF Spec

\* Every variable has its type: no count leaves its range.
THEOREM OutboxTypes == Spec => []TypeOK
<1>1. OutboxInv => TypeOK
      BY DEF OutboxInv
<1>2. QED BY <1>1, OutboxInvariant, PTL

\* No worker counts an attempt nobody made: whatever crashes, times out or
\* answers late, a message is given its allowed attempts (_deliver_one).
THEOREM Attempts == Spec => []AttemptsWereMade
<1>1. OutboxInv => AttemptsWereMade
      BY DEF OutboxInv, Counted, AttemptsWereMade
<1>2. QED BY <1>1, OutboxInvariant, PTL

\* A step takes a row from the table only as a dead letter or after a run.
LEMMA LosesNone ==
    ASSUME OutboxInv, Next, NEW k \in Keys, box[k] # NoEntry, box'[k] = NoEntry
    PROVE  box[k].status = "dead" \/ Ran(k)
<1>0. TypeOK /\ TypeOK' /\ RanFirst /\ InHand
      BY TypesStep DEF OutboxInv
<1>1. ASSUME NEW w \in Workers, Prune(w)
      PROVE  box[k].status = "dead" \/ Ran(k)
      BY <1>0, <1>1 DEF Prune, Expired, RanFirst
<1>2. CASE PurgeDead
      BY <1>0, <1>2 DEF PurgeDead
<1>3. ASSUME NEW key \in Keys, box[key] = NoEntry \/ box'[key] \in Entry,
             \A j \in Keys \ {key} : box'[j] = box[j]
      PROVE  FALSE
      BY <1>3, NullAssumption
<1>4. ASSUME NEW j \in Keys, Enqueue(j)
      PROVE  FALSE
  <2>1. box[j] = NoEntry /\ \A i \in Keys \ {j} : box'[i] = box[i]
        BY <1>0, <1>4 DEF Enqueue, TypeOK
  <2>2. QED BY <1>3, <2>1
<1>5. ASSUME NEW w \in Workers, Claim(w)
      PROVE  FALSE
  <2>1. PICK item \in workers[w].due :
          \/ UNCHANGED box
          \/ /\ Open(box[item.key])
             /\ box' = [box EXCEPT ![item.key] = Claimed(box[item.key], workers[w].since)]
        BY <1>5, ClaimEffect
  <2>2. item.key \in Keys /\ workers[w].since \in 0 .. MaxPass
        BY <1>0 DEF TypeOK, Worker, Item
  <2>3. CASE /\ Open(box[item.key])
             /\ box' = [box EXCEPT ![item.key] = Claimed(box[item.key], workers[w].since)]
    <3>1. box[item.key] \in Entry
          BY <1>0, <2>2, <2>3 DEF Open, TypeOK
    <3>2. box' = [box EXCEPT ![item.key] = Claimed(box[item.key], workers[w].since)]
          BY <1>0, <2>2, <2>3 DEF TypeOK
    <3>3. Claimed(box[item.key], workers[w].since) \in Entry
          BY <2>2, <3>1, EntryClaims
    <3>4. QED BY <1>0, <1>3, <2>2, <3>2, <3>3 DEF TypeOK
  <2>4. QED BY <2>1, <2>3
<1>6. ASSUME NEW w \in Workers, Update(w)
      PROVE  FALSE
  <2> DEFINE item == workers[w].item
  <2>1. item \in Item /\ item.key \in Keys
        BY <1>0, <1>6 DEF TypeOK, InHand, Update, Worker, Item
  <2>2. CASE UNCHANGED box
        BY <2>2
  <2>3. CASE /\ box[item.key] # NoEntry
             /\ box' = [box EXCEPT ![item.key] =
                           Updated(box[item.key], item, workers[w].outcome)]
    <3>1. Updated(box[item.key], item, workers[w].outcome) \in Entry
          BY <1>0, <2>1, <2>3, EntryUpdates DEF TypeOK
    <3>2. QED BY <1>0, <1>3, <2>1, <2>3, <3>1 DEF TypeOK
  <2>4. QED BY <1>6, <2>2, <2>3 DEF Update
<1>7. CASE Tick
  <2>1. box'[k] = [box[k] EXCEPT
                  !.wait  = IF Open(box[k]) THEN Larger(- MaxPass, @ - 1) ELSE @,
                  !.since = Smaller(Ttl + 1, @ + 1),
                  !.held  = Larger(0, @ - 1)]
        BY <1>7 DEF Tick
  <2>2. box[k] \in Entry
        BY <1>0 DEF TypeOK
  <2>3. QED BY <2>1, <2>2, EntryAges, NullAssumption
<1>8. ASSUME UNCHANGED box
      PROVE  FALSE
      BY <1>8
<1>9. ASSUME NEW c \in Slots, CallStep(c) \/ ReceiverDies(c)
      PROVE  FALSE
      BY <1>8, <1>9, CallEffect
<1>10. QED
       BY <1>1, <1>2, <1>4, <1>5, <1>6, <1>7, <1>8, <1>9
       DEF Next, WorkerStep, StartPass, GiveUp, Crash

\* Workers that overwrite each other's outcome lose no message: a row is gone
\* only after its walker ran, or as a dead letter (deliver_pending, prune).
THEOREM NothingLost == Spec => NoMessageLost
<1>1. OutboxInv /\ [Next]_vars =>
        [\A k \in Keys :
            (box[k] # NoEntry /\ box'[k] = NoEntry) =>
                \/ box[k].status = "dead"
                \/ \E n \in Ids : runs[k][n] > 0]_vars
      BY LosesNone DEF Ran
<1>2. QED BY <1>1, OutboxInvariant, PTL DEF Spec, NoMessageLost

-----------------------------------------------------------------------------
(* With deliveries shorter than leases and backoffs: one worker at a time.   *)

\* No delivery outlasts the lease or the backoff of its row, and a claim taken in
\* a pass that has read the clock as long ago as it may is not due again at once.
Timely == Prompt /\ Lease > MaxPass

Holds(w, k, n)   == workers[w].item # NoItem /\ workers[w].item.key = k /\ workers[w].item.id = n
Carries(c, k, n) == calls[c] # NoCall /\ calls[c].key = k /\ calls[c].id = n
RowOpen(k, n)    == box[k] # NoEntry /\ box[k].id = n /\ Open(box[k])

\* A row in hand is open and not yet due, and so is one a delivery is under way
\* for: nobody else can claim it.  A key's next row has a number of its own.
Alone ==
    /\ \A k \in Keys : box[k] # NoEntry => box[k].id <= made[k]
    /\ \A k \in Keys, n \in Ids, w \in Workers : Holds(w, k, n) =>
          /\ n <= made[k]
          /\ box[k] # NoEntry /\ box[k].id = n => Open(box[k]) /\ box[k].wait >= 1
          /\ \A v \in Workers : Holds(v, k, n) => v = w
    /\ \A k \in Keys, n \in Ids, c \in Slots : Carries(c, k, n) =>
          /\ n <= made[k]
          /\ RowOpen(k, n) => box[k].wait >= 1
          /\ \A d \in Slots : Carries(d, k, n) => d = c

\* A row settled is due again after a backoff of at least a second.
LEMMA BackoffPositive ==
    ASSUME NEW n \in Nat
    PROVE  Backoff(n) >= 1
<1>1. CASE n <= 1
      BY <1>1 DEF Backoff
<1>2. CASE ~ n <= 1
  <2> DEFINE S == 1 .. n - 1
  <2>1. IsFiniteSet(S) /\ Cardinality(S) = n - 1
        BY <1>2, FS_Interval
  <2>2. IsFiniteSet(SUBSET S) /\ Cardinality(SUBSET S) = 2 ^ (n - 1)
        BY <2>1, FS_SUBSET
  <2>3. S \in SUBSET S
        OBVIOUS
  <2> HIDE DEF S
  <2>4. Cardinality(SUBSET S) \in Nat /\ Cardinality(SUBSET S) # 0
        BY <2>2, <2>3, FS_EmptySet, FS_CardinalityType
  <2>5. QED BY <1>2, <2>2, <2>4, OutboxAssumption DEF Backoff, Smaller
<1>3. QED BY <1>1, <1>2

\* A settled row is the row it was, due after the backoff of the attempts made.
LEMMA UpdatedFields ==
    ASSUME NEW row \in Entry, NEW item \in Item, NEW outcome
    PROVE  /\ Updated(row, item, outcome).id = row.id
           /\ Updated(row, item, outcome).wait = Backoff(item.attempts)
<1> DEFINE status == IF outcome = "ok" THEN "delivered"
                     ELSE IF outcome = "rejected" \/ item.attempts >= MaxAttempts
                     THEN "dead" ELSE "pending"
           wait == Backoff(item.attempts)
<1>1. Updated(row, item, outcome) =
         [row EXCEPT !.attempts = item.attempts, !.held = 0, !.status = status, !.wait = wait]
      BY DEF Updated
<1> HIDE DEF status
<1>2. QED BY <1>1 DEF Entry

\* A step that takes nothing in hand, sends nothing and leaves the rows it does not
\* remove as they are keeps rows, workers and deliveries apart.
LEMMA AloneFrame ==
    ASSUME Alone,
           \A k \in Keys : made'[k] = made[k],
           \A k \in Keys : box'[k] # NoEntry => box'[k] = box[k],
           \A w \in Workers, k \in Keys, n \in Ids : Holds(w, k, n)' => Holds(w, k, n),
           \A c \in Slots, k \in Keys, n \in Ids : Carries(c, k, n)' => Carries(c, k, n)
    PROVE  Alone'
  BY DEF Alone, RowOpen, Open

\* A worker without an item, or with the one it had, holds no other.
LEMMA HoldsFrame ==
    ASSUME NEW w \in Workers, \A v \in Workers \ {w} : workers'[v] = workers[v],
           workers'[w].item = NoItem \/ workers'[w].item = workers[w].item
    PROVE  \A v \in Workers, k \in Keys, n \in Ids : Holds(v, k, n)' => Holds(v, k, n)
  BY DEF Holds

\* A delivery that is moved on, that nobody waits for any more or that ends is of the
\* message it was of.
LEMMA CarriesFrame ==
    ASSUME \A c \in Slots : calls'[c] # NoCall =>
              calls[c] # NoCall /\ calls'[c].key = calls[c].key /\ calls'[c].id = calls[c].id
    PROVE  \A c \in Slots, k \in Keys, n \in Ids : Carries(c, k, n)' => Carries(c, k, n)
  BY DEF Carries

\* With prompt deliveries every step keeps a message to one worker and one delivery.
LEMMA AloneStep ==
    ASSUME OutboxInv, Alone, Timely, Next
    PROVE  Alone'
<1>0. /\ TypeOK /\ workers \in [Workers -> Worker] /\ calls \in [Slots -> Call \cup {NoCall}]
      /\ box \in [Keys -> Entry \cup {NoEntry}] /\ made \in [Keys -> 0 .. MaxRows]
      BY DEF OutboxInv, TypeOK
<1>1. ASSUME NEW k \in Keys, Enqueue(k)
      PROVE  Alone'
  <2>1. /\ UNCHANGED <<workers, calls>> /\ box[k] = NoEntry
        /\ made'[k] = made[k] + 1 /\ \A j \in Keys \ {k} : made'[j] = made[j]
        /\ box'[k].id = made[k] + 1 /\ \A j \in Keys \ {k} : box'[j] = box[j]
        BY <1>0, <1>1 DEF Enqueue
  <2>2. \A w \in Workers, j \in Keys, n \in Ids : Holds(w, j, n)' <=> Holds(w, j, n)
        BY <2>1 DEF Holds
  <2>3. \A c \in Slots, j \in Keys, n \in Ids : Carries(c, j, n)' <=> Carries(c, j, n)
        BY <2>1 DEF Carries
  <2>4. /\ made[k] \in Int
        /\ \A j \in Keys : made[j] <= made'[j]
        BY <1>0, <2>1
  <2>5. \A j \in Keys : box'[j] # NoEntry => box'[j].id <= made'[j]
        BY <2>1, <2>4 DEF Alone
  <2>6. /\ \A w \in Workers, n \in Ids : Holds(w, k, n) => n # box'[k].id
        /\ \A c \in Slots, n \in Ids : Carries(c, k, n) => n # box'[k].id
        BY <2>1, <2>4 DEF Alone, Ids
  <2>7. \A j \in Keys, n \in Ids, w \in Workers : Holds(w, j, n)' =>
           /\ n <= made'[j]
           /\ box'[j] # NoEntry /\ box'[j].id = n => Open(box[j])' /\ box'[j].wait >= 1
           /\ \A v \in Workers : Holds(v, j, n)' => v = w
        BY <1>0, <2>1, <2>2, <2>4, <2>6 DEF Alone, Ids, Open
  <2>8. \A j \in Keys, n \in Ids, c \in Slots : Carries(c, j, n)' =>
           /\ n <= made'[j]
           /\ RowOpen(j, n)' => box'[j].wait >= 1
           /\ \A d \in Slots : Carries(d, j, n)' => d = c
        BY <1>0, <2>1, <2>3, <2>4, <2>6 DEF Alone, Ids, Open, RowOpen
  <2>9. QED BY <2>5, <2>7, <2>8 DEF Alone
<1>2. ASSUME NEW w \in Workers, StartPass(w) \/ Prune(w)
      PROVE  Alone'
  <2>1. ASSUME StartPass(w)
        PROVE  workers'[w].item = NoItem /\ \A v \in Workers \ {w} : workers'[v] = workers[v]
    <3>1. PICK pc, due : workers' = [workers EXCEPT ![w] = [Idle EXCEPT !.pc = pc, !.due = due]]
          BY <2>1 DEF StartPass
    <3>2. QED BY <1>0, <3>1 DEF Idle
  <2>2. workers'[w].item = NoItem /\ \A v \in Workers \ {w} : workers'[v] = workers[v]
        BY <1>0, <1>2, <2>1 DEF Prune, Idle
  <2>3. UNCHANGED <<calls, made>> /\ \A k \in Keys : box'[k] # NoEntry => box'[k] = box[k]
        BY <1>2 DEF StartPass, Prune
  <2>4. \A c \in Slots, k \in Keys, n \in Ids : Carries(c, k, n)' => Carries(c, k, n)
        BY <2>3 DEF Carries
  <2>5. QED BY <2>2, <2>3, <2>4, HoldsFrame, AloneFrame
<1>3. ASSUME NEW w \in Workers, GiveUp(w) \/ Crash(w)
      PROVE  Alone'
  <2>1. /\ \A v \in Workers \ {w} : workers'[v] = workers[v]
        /\ workers'[w].item = NoItem \/ workers'[w].item = workers[w].item
    <3>1. CASE GiveUp(w)
          BY <1>0, <3>1 DEF GiveUp, Told, Worker
    <3>2. CASE Crash(w)
          BY <1>0, <3>2 DEF Crash, Idle
    <3>3. QED BY <1>3, <3>1, <3>2
  <2>2. \A c \in Slots : calls'[c] # NoCall =>
           calls[c] # NoCall /\ calls'[c].key = calls[c].key /\ calls'[c].id = calls[c].id
        BY <1>0, <1>3 DEF GiveUp, Crash, Call
  <2>3. UNCHANGED <<box, made>>
        BY <1>3 DEF GiveUp, Crash
  <2>4. QED BY <2>1, <2>2, <2>3, HoldsFrame, CarriesFrame, AloneFrame
<1>4. ASSUME NEW c \in Slots, CallStep(c) \/ ReceiverDies(c)
      PROVE  Alone'
  <2>1. UNCHANGED <<box, made>> /\ calls[c] \in Call /\ calls[c] # NoCall
        BY <1>4, CallEffect
  <2>2. CASE \E stage \in {"running", "ran"} :
                calls' = [calls EXCEPT ![c].stage = stage] /\ UNCHANGED workers
    <3>1. \A d \in Slots : calls'[d] # NoCall =>
             calls[d] # NoCall /\ calls'[d].key = calls[d].key /\ calls'[d].id = calls[d].id
          BY <1>0, <2>1, <2>2 DEF Call
    <3>2. \A v \in Workers, k \in Keys, n \in Ids : Holds(v, k, n)' => Holds(v, k, n)
          BY <2>2 DEF Holds
    <3>3. QED BY <2>1, <3>1, <3>2, CarriesFrame, AloneFrame
  <2>3. ASSUME NEW outcome \in {"ok", "failed", "rejected"}, Ends(c, outcome)
        PROVE  Alone'
    <3>1. /\ calls'[c] = NoCall /\ \A d \in Slots \ {c} : calls'[d] = calls[d]
          /\ \A w \in Workers : workers'[w].item = workers[w].item
          BY <2>1, <2>3, EndsEffect
    <3>2. \A v \in Workers, k \in Keys, n \in Ids : Holds(v, k, n)' => Holds(v, k, n)
          BY <3>1 DEF Holds
    <3>3. \A d \in Slots, k \in Keys, n \in Ids : Carries(d, k, n)' => Carries(d, k, n)
          BY <3>1 DEF Carries
    <3>4. QED BY <2>1, <3>2, <3>3, AloneFrame
  <2>4. QED BY <1>4, <2>2, <2>3, CallEffect
<1>5. CASE PurgeDead
  <2>1. /\ UNCHANGED <<workers, calls, made>>
        /\ \A k \in Keys : box'[k] # NoEntry => box'[k] = box[k]
        BY <1>5 DEF PurgeDead
  <2>2. QED BY <2>1, AloneFrame DEF Holds, Carries
<1>6. ASSUME NEW w \in Workers, Claim(w)
      PROVE  Alone'
  <2>1. /\ UNCHANGED made /\ \A v \in Workers \ {w} : workers'[v] = workers[v]
        /\ workers[w] \in Worker /\ workers[w].since \in 0 .. MaxPass
        BY <1>0, <1>6, ClaimEffect DEF Worker
  <2>2. PICK item \in workers[w].due :
          \/ /\ workers'[w].pc \in {"prune", "claim"}
             /\ workers'[w].item = workers[w].item
             /\ UNCHANGED <<box, calls, tries>>
          \/ /\ workers'[w].pc = "calling"
             /\ workers'[w].item = [item EXCEPT !.attempts = @ + 1]
             /\ Open(box[item.key])
             /\ Claimable(box[item.key], item, workers[w].since)
             /\ box' = [box EXCEPT ![item.key] = Claimed(box[item.key], workers[w].since)]
             /\ tries' = [tries EXCEPT ![item.key][item.id] = Smaller(MaxAttempts + 1, @ + 1)]
             /\ \E c \in Slots : \E stage \in {"running", "sent"} :
                  /\ InProcess \/ stage = "sent"
                  /\ calls[c] = NoCall
                  /\ calls' = [calls EXCEPT ![c] =
                        [key |-> item.key, id |-> item.id, by |-> w, stage |-> stage]]
        BY <1>6, ClaimEffect
  <2>3. CASE workers'[w].item = workers[w].item /\ UNCHANGED <<box, calls, tries>>
    <3>1. \A c \in Slots, k \in Keys, n \in Ids : Carries(c, k, n)' => Carries(c, k, n)
          BY <2>3 DEF Carries
    <3>2. QED BY <2>1, <2>3, <3>1, HoldsFrame, AloneFrame
  <2>4. ASSUME workers'[w].item = [item EXCEPT !.attempts = @ + 1],
               Claimable(box[item.key], item, workers[w].since),
               box' = [box EXCEPT ![item.key] = Claimed(box[item.key], workers[w].since)],
               NEW c \in Slots, NEW stage, calls[c] = NoCall,
               calls' = [calls EXCEPT ![c] =
                   [key |-> item.key, id |-> item.id, by |-> w, stage |-> stage]]
        PROVE  Alone'
    <3> DEFINE k == item.key
               n == item.id
    <3>1. item \in Item /\ k \in Keys /\ n \in Ids
          BY <2>1 DEF Worker, Item
    <3>2. RowOpen(k, n) /\ box[k] \in Entry /\ box[k].wait <= 0
      <4>1. Open(box[k]) /\ box[k].id = n /\ box[k].wait <= - workers[w].since
            BY <2>4 DEF Claimable
      <4>2. box[k] # NoEntry /\ box[k] \in Entry
            BY <1>0, <3>1, <4>1 DEF Open
      <4>3. box[k].wait <= 0
            BY <2>1, <4>1, <4>2, OutboxAssumption DEF Entry
      <4>4. QED BY <4>1, <4>2, <4>3 DEF RowOpen
    <3>3. /\ \A v \in Workers : ~ Holds(v, k, n)
          /\ \A d \in Slots : ~ Carries(d, k, n)
          /\ n <= made[k]
      <4> HIDE DEF k, n
      <4>1. box[k].wait \in Int
            BY <3>2 DEF Entry
      <4>2. QED BY <3>1, <3>2, <4>1 DEF Alone, RowOpen
    <3>4. /\ RowOpen(k, n)' /\ box'[k].id = n /\ box'[k].wait >= 1
          /\ \A j \in Keys \ {k} : box'[j] = box[j]
      <4>1. box'[k] = Claimed(box[k], workers[w].since) /\ \A j \in Keys \ {k} : box'[j] = box[j]
            BY <1>0, <2>4, <3>1
      <4>2. /\ box'[k].id = box[k].id /\ box'[k].status = "delivering"
            /\ box'[k].wait = Lease - workers[w].since
            BY <3>2, <4>1 DEF Claimed, Entry
      <4>3. box'[k] \in Entry
            BY <2>1, <3>2, <4>1, EntryClaims
      <4>4. box'[k].wait >= 1
            BY <2>1, <4>2, OutboxAssumption DEF Timely
      <4>5. QED BY <3>2, <4>1, <4>2, <4>3, <4>4, NullAssumption DEF RowOpen, Open
    <3>5. \A v \in Workers, j \in Keys, m \in Ids :
             Holds(v, j, m)' => (v = w /\ j = k /\ m = n) \/ (v # w /\ Holds(v, j, m))
      <4>1. workers'[w].item.key = k /\ workers'[w].item.id = n
            BY <2>4, <3>1 DEF Item
      <4>2. QED BY <2>1, <4>1 DEF Holds
    <3>6. \A d \in Slots, j \in Keys, m \in Ids :
             Carries(d, j, m)' => (d = c /\ j = k /\ m = n) \/ (d # c /\ Carries(d, j, m))
          BY <1>0, <2>4 DEF Carries
    <3> HIDE DEF k, n
    <3>7. \A j \in Keys : box'[j] # NoEntry => box'[j].id <= made'[j]
          BY <2>1, <3>3, <3>4 DEF Alone
    <3>8. \A j \in Keys, m \in Ids, v \in Workers : Holds(v, j, m)' =>
             /\ m <= made'[j]
             /\ box'[j] # NoEntry /\ box'[j].id = m => Open(box[j])' /\ box'[j].wait >= 1
             /\ \A u \in Workers : Holds(u, j, m)' => u = v
          BY <2>1, <3>3, <3>4, <3>5 DEF Alone, RowOpen, Open
    <3>9. \A j \in Keys, m \in Ids, d \in Slots : Carries(d, j, m)' =>
             /\ m <= made'[j]
             /\ RowOpen(j, m)' => box'[j].wait >= 1
             /\ \A e \in Slots : Carries(e, j, m)' => e = d
          BY <2>1, <3>3, <3>4, <3>6 DEF Alone, RowOpen, Open
    <3>10. QED BY <3>7, <3>8, <3>9 DEF Alone
  <2>5. QED BY <2>2, <2>3, <2>4
<1>7. ASSUME NEW w \in Workers, Update(w)
      PROVE  Alone'
  <2>0. PICK item : item = workers[w].item
        OBVIOUS
  <2> DEFINE k == item.key
             n == item.id
  <2>1. item \in Item /\ k \in Keys /\ n \in Ids /\ Holds(w, k, n) /\ item # NoItem
        BY <1>0, <1>7, <2>0, NullAssumption DEF OutboxInv, InHand, Update, Worker, Item, Holds
  <2>2. /\ UNCHANGED <<calls, made>> /\ workers'[w].item = NoItem
        /\ \A v \in Workers \ {w} : workers'[v] = workers[v]
        BY <1>0, <1>7 DEF Update, Worker
  <2>3. \A v \in Workers, j \in Keys, m \in Ids : Holds(v, j, m)' => Holds(v, j, m) /\ v # w
        BY <2>2 DEF Holds
  <2>4. \A c \in Slots, j \in Keys, m \in Ids : Carries(c, j, m)' => Carries(c, j, m)
        BY <2>2 DEF Carries
  <2>5. CASE UNCHANGED box
        BY <2>2, <2>3, <2>4, <2>5, AloneFrame
  <2>6. ASSUME box[k] # NoEntry, box[k].id = n,
               box' = [box EXCEPT ![k] = Updated(box[k], item, workers[w].outcome)]
        PROVE  Alone'
    <3>1. /\ box'[k] = Updated(box[k], item, workers[w].outcome)
          /\ \A j \in Keys \ {k} : box'[j] = box[j]
          BY <1>0, <2>1, <2>6
    <3>2. box[k] \in Entry
          BY <1>0, <2>1, <2>6
    <3>3. box'[k].id = n /\ box'[k].wait = Backoff(item.attempts)
          BY <2>1, <2>6, <3>1, <3>2, UpdatedFields
    <3>4. box'[k].wait >= 1
          BY <2>1, <3>3, BackoffPositive, OutboxAssumption DEF Item
    <3> HIDE DEF k, n
    <3>5. \A v \in Workers : ~ Holds(v, k, n)'
          BY <2>1, <2>3 DEF Alone
    <3>6. \A j \in Keys : box'[j] # NoEntry => box'[j].id <= made'[j]
          BY <2>1, <2>2, <2>6, <3>1, <3>3 DEF Alone
    <3>7. \A j \in Keys, m \in Ids, v \in Workers : Holds(v, j, m)' =>
             /\ m <= made'[j]
             /\ box'[j] # NoEntry /\ box'[j].id = m => Open(box[j])' /\ box'[j].wait >= 1
             /\ \A u \in Workers : Holds(u, j, m)' => u = v
          BY <2>1, <2>2, <2>3, <3>1, <3>3, <3>5 DEF Alone, Open
    <3>8. \A j \in Keys, m \in Ids, d \in Slots : Carries(d, j, m)' =>
             /\ m <= made'[j]
             /\ RowOpen(j, m)' => box'[j].wait >= 1
             /\ \A e \in Slots : Carries(e, j, m)' => e = d
          BY <2>1, <2>2, <2>4, <3>1, <3>4 DEF Alone, RowOpen, Open
    <3>9. QED BY <3>6, <3>7, <3>8 DEF Alone
  <2>7. QED BY <1>7, <2>0, <2>5, <2>6 DEF Update
<1>8. CASE Tick
  <2>1. /\ UNCHANGED <<calls, made>>
        /\ workers' = [w \in Workers |-> IF workers[w].pc = "idle" THEN workers[w]
                                        ELSE [workers[w] EXCEPT !.since = @ + 1]]
        BY <1>8 DEF Tick
  <2>2. \A w \in Workers : workers'[w].item = workers[w].item
        BY <1>0, <2>1 DEF Worker
  <2>3. \A v \in Workers, j \in Keys, m \in Ids : Holds(v, j, m)' <=> Holds(v, j, m)
        BY <2>2 DEF Holds
  <2>4. \A c \in Slots, j \in Keys, m \in Ids : Carries(c, j, m)' <=> Carries(c, j, m)
        BY <2>1 DEF Carries
  <2>5. ASSUME NEW k \in Keys, box'[k] # NoEntry
        PROVE  /\ box[k] # NoEntry /\ box'[k].id = box[k].id
               /\ Open(box[k])' <=> Open(box[k])
               /\ Delivering(k) /\ box[k].wait >= 1 => box'[k].wait >= 1
    <3>1. box[k] # NoEntry /\ box[k] \in Entry
          BY <1>0, <1>8, <2>5 DEF Tick
    <3> DEFINE wait == IF Open(box[k]) THEN Larger(- MaxPass, box[k].wait - 1) ELSE box[k].wait
               since == Smaller(Ttl + 1, box[k].since + 1)
               held == Larger(0, box[k].held - 1)
    <3>2. box'[k] = [box[k] EXCEPT !.wait = wait, !.since = since, !.held = held]
          BY <1>8, <3>1 DEF Tick
    <3> HIDE DEF since, held
    <3>3. /\ box'[k].id = box[k].id /\ box'[k].status = box[k].status
          /\ box'[k].wait = wait
          BY <3>1, <3>2 DEF Entry
    <3>4. Delivering(k) => Open(box[k]) /\ box[k].wait # 1
          BY <1>8 DEF Tick, Timely
    <3>5. Delivering(k) /\ box[k].wait >= 1 => box'[k].wait >= 1
          BY <3>1, <3>3, <3>4, OutboxAssumption DEF Larger, Entry
    <3>6. QED BY <2>5, <3>1, <3>3, <3>5 DEF Open
  <2>6. \A k \in Keys, n \in Ids :
           /\ \A w \in Workers : Holds(w, k, n) => Delivering(k)
           /\ \A c \in Slots : Carries(c, k, n) => Delivering(k)
        BY DEF Holds, Carries, Delivering
  <2>7. QED BY <2>1, <2>3, <2>4, <2>5, <2>6 DEF Alone, RowOpen
<1>9. QED BY <1>1, <1>2, <1>3, <1>4, <1>5, <1>6, <1>7, <1>8 DEF Next, WorkerStep

-----------------------------------------------------------------------------
(* With remembered keys that outlast their messages: one run.                *)

\* The message may yet be received: its row is open, or a delivery is on its way.
Awaits(k, n) == RowOpen(k, n) \/ \E c \in Slots : Carries(c, k, n) /\ calls[c].stage = "sent"

\* The receiver does not forget the key of a message it has run while the message may
\* yet be received (DEFAULT_SEEN_TTL_S, a week, against backoffs of minutes).
Outlasts == \A k \in Keys, n \in Ids :
    runs[k][n] > 0 /\ seen[k] > 0 /\ Awaits(k, n) => seen'[k] > 0
KeysOutlast == [][Outlasts]_vars

\* A message whose walker has run is remembered, or about to be, as long as it may
\* yet be received; a walker that is running is its message's first.
Once ==
    /\ \A k \in Keys, n \in Ids : runs[k][n] <= 1 /\ (runs[k][n] > 0 => n <= made[k])
    /\ \A k \in Keys, n \in Ids, c \in Slots :
          Carries(c, k, n) /\ calls[c].stage = "running" => runs[k][n] = 0
    /\ \A k \in Keys, n \in Ids : runs[k][n] > 0 /\ Awaits(k, n) =>
          seen[k] > 0 \/ \E c \in Slots : Carries(c, k, n) /\ calls[c].stage = "ran"

\* A step that runs no walker, starts none and has no message received anew.
LEMMA OnceFrame ==
    ASSUME Once, Outlasts, UNCHANGED runs,
           \A k \in Keys : \A n \in Ids : n <= made[k] => n <= made'[k],
           \A k \in Keys, n \in Ids : runs[k][n] > 0 /\ RowOpen(k, n)' => RowOpen(k, n),
           \A c \in Slots, k \in Keys, n \in Ids : Carries(c, k, n)' /\ calls'[c].stage = "sent" =>
              RowOpen(k, n) \/ (Carries(c, k, n) /\ calls[c].stage = "sent"),
           \A c \in Slots, k \in Keys, n \in Ids : Carries(c, k, n)' /\ calls'[c].stage = "running" =>
              Carries(c, k, n) /\ calls[c].stage = "running",
           \A c \in Slots, k \in Keys, n \in Ids : Carries(c, k, n) /\ calls[c].stage = "ran" =>
              seen'[k] > 0 \/ (Carries(c, k, n)' /\ calls'[c].stage = "ran")
    PROVE  Once'
<1>1. \A k \in Keys, n \in Ids : runs[k][n] > 0 /\ Awaits(k, n)' => Awaits(k, n)
      BY DEF Awaits
<1>2. /\ \A k \in Keys, n \in Ids : runs'[k][n] <= 1 /\ (runs'[k][n] > 0 => n <= made'[k])
      /\ \A k \in Keys, n \in Ids, c \in Slots :
            Carries(c, k, n)' /\ calls'[c].stage = "running" => runs'[k][n] = 0
      BY DEF Once
<1>3. ASSUME NEW k \in Keys, NEW n \in Ids, runs[k][n] > 0, Awaits(k, n)
      PROVE  seen'[k] > 0 \/ \E c \in Slots : Carries(c, k, n)' /\ calls'[c].stage = "ran"
  <2>1. CASE seen[k] > 0
        BY <1>3, <2>1 DEF Outlasts
  <2>2. ASSUME NEW c \in Slots, Carries(c, k, n), calls[c].stage = "ran"
        PROVE  seen'[k] > 0 \/ \E d \in Slots : Carries(d, k, n)' /\ calls'[d].stage = "ran"
        BY <2>2
  <2>3. QED BY <1>3, <2>1, <2>2 DEF Once
<1>4. QED BY <1>1, <1>2, <1>3 DEF Once

\* A delivery that ends before its walker has run, or once its key is remembered.
LEMMA OnceEnds ==
    ASSUME OutboxInv, Once, Outlasts, UNCHANGED <<box, made, runs>>,
           NEW c \in Slots, calls[c] \in Call,
           NEW outcome \in {"ok", "failed", "rejected"}, Ends(c, outcome),
           calls[c].stage # "ran" \/ seen'[calls[c].key] > 0
    PROVE  Once'
<1>1. calls'[c] = NoCall /\ \A d \in Slots \ {c} : calls'[d] = calls[d]
      BY EndsEffect
<1>2. \A k \in Keys, n \in Ids : RowOpen(k, n)' => RowOpen(k, n)
      BY DEF RowOpen, Open
<1>3. \A d \in Slots, k \in Keys, n \in Ids : Carries(d, k, n)' =>
         Carries(d, k, n) /\ calls'[d] = calls[d]
      BY <1>1 DEF Carries
<1>4. \A d \in Slots, k \in Keys, n \in Ids : Carries(d, k, n) /\ calls[d].stage = "ran" =>
         seen'[k] > 0 \/ (Carries(d, k, n)' /\ calls'[d].stage = "ran")
      BY <1>1 DEF Carries
<1>5. QED BY <1>2, <1>3, <1>4, OnceFrame

\* With prompt deliveries and keys that outlast their messages no step runs a walker
\* that has run.
LEMMA OnceStep ==
    ASSUME OutboxInv, Alone, Once, Timely, ~ InProcess, Outlasts, Next
    PROVE  Once'
<1>0. /\ TypeOK /\ workers \in [Workers -> Worker] /\ calls \in [Slots -> Call \cup {NoCall}]
      /\ box \in [Keys -> Entry \cup {NoEntry}] /\ made \in [Keys -> 0 .. MaxRows]
      /\ runs \in [Keys -> [Ids -> 0 .. 2]]
      BY DEF OutboxInv, TypeOK
<1> DEFINE SameCalls == \A c \in Slots :
              /\ calls'[c] # NoCall <=> calls[c] # NoCall
              /\ calls[c] # NoCall => /\ calls'[c].key = calls[c].key
                                      /\ calls'[c].id = calls[c].id
                                      /\ calls'[c].stage = calls[c].stage
           SameRows == \A k \in Keys, n \in Ids : RowOpen(k, n)' => RowOpen(k, n)
<1>1. ASSUME SameCalls, SameRows, UNCHANGED <<runs, made>>
      PROVE  Once'
  <2>1. \A c \in Slots, k \in Keys, n \in Ids :
           /\ Carries(c, k, n)' <=> Carries(c, k, n)
           /\ Carries(c, k, n) => calls'[c].stage = calls[c].stage
        BY <1>1 DEF Carries
  <2>2. QED BY <1>1, <2>1, OnceFrame
<1>2. ASSUME \A k \in Keys : box'[k] # NoEntry => box'[k] = box[k]
      PROVE  SameRows
      BY <1>2 DEF RowOpen, Open
<1>3. ASSUME UNCHANGED calls
      PROVE  SameCalls
      BY <1>3
<1>4. ASSUME NEW k \in Keys, Enqueue(k)
      PROVE  Once'
  <2>1. /\ UNCHANGED <<calls, runs>>
        /\ made'[k] = made[k] + 1 /\ \A j \in Keys \ {k} : made'[j] = made[j]
        /\ box'[k].id = made[k] + 1 /\ \A j \in Keys \ {k} : box'[j] = box[j]
        BY <1>0, <1>4 DEF Enqueue
  <2>2. made[k] \in Int
        BY <1>0
  <2>3. \A j \in Keys, n \in Ids : runs[j][n] > 0 /\ RowOpen(j, n)' => RowOpen(j, n)
        BY <2>1, <2>2 DEF Once, RowOpen, Open, Ids
  <2>4. \A c \in Slots, j \in Keys, n \in Ids : Carries(c, j, n)' <=> Carries(c, j, n)
        BY <2>1 DEF Carries
  <2>5. \A j \in Keys : \A n \in Ids : n <= made[j] => n <= made'[j]
        BY <2>1, <2>2 DEF Ids
  <2>6. QED BY <2>1, <2>3, <2>4, <2>5, OnceFrame
<1>5. ASSUME NEW w \in Workers, StartPass(w) \/ Prune(w)
      PROVE  Once'
  <2>1. UNCHANGED <<calls, runs, made>> /\ \A k \in Keys : box'[k] # NoEntry => box'[k] = box[k]
        BY <1>5 DEF StartPass, Prune
  <2>2. QED BY <1>1, <1>2, <1>3, <2>1
<1>6. CASE PurgeDead
  <2>1. UNCHANGED <<calls, runs, made>> /\ \A k \in Keys : box'[k] # NoEntry => box'[k] = box[k]
        BY <1>6 DEF PurgeDead
  <2>2. QED BY <1>1, <1>2, <1>3, <2>1
<1>7. ASSUME NEW w \in Workers, GiveUp(w) \/ Crash(w)
      PROVE  Once'
  <2>1. UNCHANGED <<box, runs, made>>
        BY <1>7 DEF GiveUp, Crash
  <2>2. ASSUME NEW c \in Slots
        PROVE  /\ calls'[c] # NoCall <=> calls[c] # NoCall
               /\ calls[c] # NoCall => /\ calls'[c].key = calls[c].key
                                       /\ calls'[c].id = calls[c].id
                                       /\ calls'[c].stage = calls[c].stage
    <3>1. calls'[c] = calls[c]
          \/ (calls[c] # NoCall /\ calls'[c] = [calls[c] EXCEPT !.by = NoItem])
          BY <1>7 DEF GiveUp, Crash
    <3>2. calls[c] # NoCall => calls[c] \in Call /\ [calls[c] EXCEPT !.by = NoItem] \in Call
          BY <1>0 DEF Call
    <3>3. QED BY <3>1, <3>2, NullAssumption DEF Call
  <2>3. QED BY <1>1, <1>2, <2>1, <2>2
<1>8. ASSUME NEW w \in Workers, Claim(w)
      PROVE  Once'
  <2>1. /\ UNCHANGED <<runs, made>> /\ workers[w] \in Worker
        BY <1>0, <1>8, ClaimEffect
  <2>2. PICK item \in workers[w].due :
          \/ /\ workers'[w].pc \in {"prune", "claim"}
             /\ workers'[w].item = workers[w].item
             /\ UNCHANGED <<box, calls, tries>>
          \/ /\ workers'[w].pc = "calling"
             /\ workers'[w].item = [item EXCEPT !.attempts = @ + 1]
             /\ Open(box[item.key])
             /\ Claimable(box[item.key], item, workers[w].since)
             /\ box' = [box EXCEPT ![item.key] = Claimed(box[item.key], workers[w].since)]
             /\ tries' = [tries EXCEPT ![item.key][item.id] = Smaller(MaxAttempts + 1, @ + 1)]
             /\ \E c \in Slots : \E stage \in {"running", "sent"} :
                  /\ InProcess \/ stage = "sent"
                  /\ calls[c] = NoCall
                  /\ calls' = [calls EXCEPT ![c] =
                        [key |-> item.key, id |-> item.id, by |-> w, stage |-> stage]]
        BY <1>8, ClaimEffect
  <2>3. CASE UNCHANGED <<box, calls>>
        BY <1>1, <1>2, <1>3, <2>1, <2>3
  <2>4. ASSUME Claimable(box[item.key], item, workers[w].since),
               box' = [box EXCEPT ![item.key] = Claimed(box[item.key], workers[w].since)],
               NEW c \in Slots, calls[c] = NoCall,
               calls' = [calls EXCEPT ![c] =
                   [key |-> item.key, id |-> item.id, by |-> w, stage |-> "sent"]]
        PROVE  Once'
    <3> DEFINE k == item.key
               n == item.id
    <3>1. item \in Item /\ k \in Keys /\ n \in Ids
          BY <2>1 DEF Worker, Item
    <3>2. RowOpen(k, n) /\ box[k] \in Entry
          BY <1>0, <2>4, <3>1 DEF Claimable, RowOpen, Open
    <3>3. box'[k].id = n /\ \A j \in Keys \ {k} : box'[j] = box[j]
          BY <1>0, <2>4, <3>1, <3>2 DEF Claimed, Entry, RowOpen
    <3>4. \A j \in Keys, m \in Ids : RowOpen(j, m)' => RowOpen(j, m)
          BY <3>2, <3>3 DEF RowOpen, Open
    <3>5. \A d \in Slots, j \in Keys, m \in Ids :
             Carries(d, j, m)' => \/ d = c /\ j = k /\ m = n /\ calls'[d].stage = "sent"
                                  \/ d # c /\ Carries(d, j, m) /\ calls'[d] = calls[d]
          BY <1>0, <2>4 DEF Carries
    <3>6. \A d \in Slots, j \in Keys, m \in Ids :
             Carries(d, j, m) => Carries(d, j, m)' /\ calls'[d] = calls[d]
          BY <1>0, <2>4 DEF Carries
    <3> HIDE DEF k, n
    <3>7. QED BY <2>1, <3>2, <3>4, <3>5, <3>6, OnceFrame
  <2>5. QED BY <2>2, <2>3, <2>4
<1>9. ASSUME NEW w \in Workers, Update(w)
      PROVE  Once'
  <2>0. PICK item : item = workers[w].item
        OBVIOUS
  <2>1. item \in Item /\ item.key \in Keys /\ item.id \in Ids /\ Holds(w, item.key, item.id)
        BY <1>0, <1>9, <2>0, NullAssumption DEF OutboxInv, InHand, Update, Worker, Item, Holds
  <2>2. UNCHANGED <<calls, made, runs>>
        BY <1>9 DEF Update
  <2>3. CASE UNCHANGED box
        BY <1>1, <1>2, <1>3, <2>2, <2>3
  <2>4. ASSUME box[item.key] # NoEntry, box[item.key].id = item.id,
               box' = [box EXCEPT ![item.key] =
                          Updated(box[item.key], item, workers[w].outcome)]
        PROVE  Once'
    <3>1. RowOpen(item.key, item.id) /\ box[item.key] \in Entry
          BY <1>0, <2>1, <2>4 DEF Alone, RowOpen
    <3>2. box'[item.key].id = item.id /\ \A j \in Keys \ {item.key} : box'[j] = box[j]
          BY <1>0, <2>1, <2>4, <3>1, UpdatedFields
    <3>3. SameRows
          BY <3>1, <3>2 DEF RowOpen, Open
    <3>4. QED BY <1>1, <1>3, <2>2, <3>3
  <2>5. QED BY <1>9, <2>0, <2>3, <2>4 DEF Update
<1>10. CASE Tick
  <2>1. UNCHANGED <<calls, made, runs>>
        BY <1>10 DEF Tick
  <2>2. ASSUME NEW k \in Keys, box'[k] # NoEntry
        PROVE  box[k] # NoEntry /\ box'[k].id = box[k].id /\ box'[k].status = box[k].status
    <3>1. box[k] # NoEntry /\ box[k] \in Entry
          BY <1>0, <1>10, <2>2 DEF Tick
    <3>2. PICK wait, since, held :
              box'[k] = [box[k] EXCEPT !.wait = wait, !.since = since, !.held = held]
          BY <1>10, <3>1 DEF Tick
    <3>3. QED BY <3>1, <3>2 DEF Entry
  <2>3. SameRows
        BY <2>2 DEF RowOpen, Open
  <2>4. QED BY <1>1, <1>3, <2>1, <2>3
<1>11. ASSUME NEW c \in Slots, CallStep(c) \/ ReceiverDies(c)
       PROVE  Once'
  <2>1. UNCHANGED <<box, made>> /\ calls[c] \in Call /\ calls[c] # NoCall
        BY <1>11, CallEffect
  <2>2. PICK k \in Keys, n \in Ids : k = calls[c].key /\ n = calls[c].id
        BY <2>1 DEF Call
  <2>3. Carries(c, k, n)
        BY <2>1, <2>2 DEF Carries
  <2>4. \A d \in Slots : Carries(d, k, n) => d = c
        BY <2>2, <2>3 DEF Alone
  <2>5. ASSUME NEW stage \in {"running", "ran"}, calls' = [calls EXCEPT ![c].stage = stage]
        PROVE  /\ \A d \in Slots, j \in Keys, m \in Ids : Carries(d, j, m)' <=> Carries(d, j, m)
               /\ calls'[c].stage = stage /\ \A d \in Slots \ {c} : calls'[d] = calls[d]
    <3>1. calls'[c] = [calls[c] EXCEPT !.stage = stage] /\ \A d \in Slots \ {c} : calls'[d] = calls[d]
          BY <1>0, <2>5
    <3>2. /\ calls'[c].key = k /\ calls'[c].id = n /\ calls'[c].stage = stage
          /\ calls'[c] \in Call
          BY <2>1, <2>2, <3>1 DEF Call
    <3>3. QED BY <2>2, <2>3, <3>1, <3>2, NullAssumption DEF Carries
  <2>6. \A j \in Keys, m \in Ids : RowOpen(j, m)' => RowOpen(j, m)
        BY <2>1 DEF RowOpen, Open
  <2>7. CASE Receive(c)
    <3>1. UNCHANGED <<runs, seen>> /\ calls[c].stage = "sent"
          BY <2>7 DEF Receive
    <3>2. CASE Answers(c, "rejected") \/ Answers(c, "ok")
          BY <2>1, <3>1, <3>2, OnceEnds DEF Answers
    <3>3. CASE seen[calls[c].key] = 0 /\ calls' = [calls EXCEPT ![c].stage = "running"]
      <4>1. runs[k][n] = 0
        <5>1. Awaits(k, n)
              BY <2>3, <3>1 DEF Awaits
        <5>2. ~ \E d \in Slots : Carries(d, k, n) /\ calls[d].stage = "ran"
              BY <2>4, <3>1
        <5>3. runs[k][n] \in 0 .. 2
              BY <1>0
        <5>4. QED BY <2>2, <3>3, <5>1, <5>2, <5>3 DEF Once
      <4>2. /\ \A d \in Slots, j \in Keys, m \in Ids : Carries(d, j, m)' <=> Carries(d, j, m)
            /\ calls'[c].stage = "running" /\ \A d \in Slots \ {c} : calls'[d] = calls[d]
            BY <2>5, <3>3
      <4>3. \A j \in Keys, m \in Ids : Carries(c, j, m) => j = k /\ m = n
            BY <2>3 DEF Carries
      <4>4. \A d \in Slots, j \in Keys, m \in Ids :
               Carries(d, j, m)' /\ calls'[d].stage = "running" => runs'[j][m] = 0
            BY <3>1, <4>1, <4>2, <4>3 DEF Once
      <4>5. \A j \in Keys, m \in Ids : Awaits(j, m)' => Awaits(j, m)
            BY <2>6, <4>2 DEF Awaits
      <4>6. \A d \in Slots, j \in Keys, m \in Ids : Carries(d, j, m) /\ calls[d].stage = "ran" =>
               Carries(d, j, m)' /\ calls'[d].stage = "ran"
            BY <3>1, <4>2
      <4>7. QED BY <2>1, <3>1, <4>4, <4>5, <4>6 DEF Once
    <3>4. QED BY <2>7, <3>2, <3>3 DEF Receive
  <2>8. CASE RunWalker(c)
    <3>1. UNCHANGED seen /\ calls[c].stage = "running" /\ runs[k][n] = 0
          BY <2>3, <2>8 DEF RunWalker, Once
    <3>2. CASE UNCHANGED runs /\ \E outcome \in {"failed", "rejected"} : Answers(c, outcome)
          BY <2>1, <3>1, <3>2, OnceEnds DEF Answers
    <3>3. CASE /\ runs' = [runs EXCEPT ![k][n] = Smaller(2, @ + 1)]
               /\ calls' = [calls EXCEPT ![c].stage = "ran"]
      <4>1. /\ \A d \in Slots, j \in Keys, m \in Ids : Carries(d, j, m)' <=> Carries(d, j, m)
            /\ calls'[c].stage = "ran" /\ \A d \in Slots \ {c} : calls'[d] = calls[d]
            BY <2>5, <3>3
      <4>2. \A j \in Keys, m \in Ids :
               runs'[j][m] = IF j = k /\ m = n THEN 1 ELSE runs[j][m]
            BY <1>0, <3>1, <3>3 DEF Smaller
      <4>3. n <= made[k]
            BY <2>3 DEF Alone
      <4>4. \A j \in Keys, m \in Ids : runs'[j][m] <= 1 /\ (runs'[j][m] > 0 => m <= made'[j])
            BY <2>1, <4>2, <4>3 DEF Once
      <4>5. \A d \in Slots, j \in Keys, m \in Ids :
               Carries(d, j, m)' /\ calls'[d].stage = "running" => runs'[j][m] = 0
            BY <2>4, <4>1, <4>2 DEF Once
      <4>6. \A j \in Keys, m \in Ids : Awaits(j, m)' => Awaits(j, m)
            BY <2>6, <4>1 DEF Awaits
      <4>7. \A d \in Slots, j \in Keys, m \in Ids : Carries(d, j, m) /\ calls[d].stage = "ran" =>
               Carries(d, j, m)' /\ calls'[d].stage = "ran"
            BY <4>1
      <4>8. Carries(c, k, n)' /\ calls'[c].stage = "ran"
            BY <2>3, <4>1
      <4>9. \A j \in Keys, m \in Ids : runs'[j][m] > 0 /\ Awaits(j, m)' =>
               seen'[j] > 0 \/ \E d \in Slots : Carries(d, j, m)' /\ calls'[d].stage = "ran"
            BY <3>1, <4>2, <4>6, <4>7, <4>8 DEF Once
      <4>10. QED BY <4>4, <4>5, <4>9 DEF Once
    <3>4. QED BY <2>2, <2>8, <3>2, <3>3 DEF RunWalker
  <2>9. CASE Remember(c)
    <3>1. UNCHANGED runs /\ seen'[calls[c].key] > 0
          BY <1>0, <2>2, <2>9, OutboxAssumption DEF Remember, TypeOK
    <3>2. QED BY <2>1, <2>9, <3>1, OnceEnds DEF Remember, Answers
  <2>10. CASE ReceiverDies(c)
    <3>1. UNCHANGED runs /\ calls[c].stage # "ran" /\ Ends(c, "failed")
          BY <2>10 DEF ReceiverDies, Timely
    <3>2. QED BY <2>1, <3>1, OnceEnds
  <2>11. QED BY <1>11, <2>7, <2>8, <2>9, <2>10 DEF CallStep
<1>12. QED BY <1>4, <1>5, <1>6, <1>7, <1>8, <1>9, <1>10, <1>11 DEF Next, WorkerStep

-----------------------------------------------------------------------------
\* A delivered row is put back by nobody: no worker holds it any more.
LEMMA StaysDelivered ==
    ASSUME OutboxInv, Alone, Next, NEW k \in Keys,
           box[k] # NoEntry, box[k].status = "delivered", box'[k] # NoEntry
    PROVE  box'[k].status = "delivered"
<1>0. /\ workers \in [Workers -> Worker] /\ box \in [Keys -> Entry \cup {NoEntry}]
      /\ ~ Open(box[k])
      BY DEF OutboxInv, TypeOK, Open
<1>1. ASSUME box'[k] = box[k]
      PROVE  box'[k].status = "delivered"
      BY <1>1
<1>2. ASSUME NEW j \in Keys, Enqueue(j)
      PROVE  box'[k] = box[k]
      BY <1>0, <1>2 DEF Enqueue
<1>3. ASSUME NEW w \in Workers, Claim(w)
      PROVE  box'[k] = box[k]
  <2>1. PICK item \in workers[w].due :
          \/ UNCHANGED box
          \/ /\ Open(box[item.key])
             /\ box' = [box EXCEPT ![item.key] = Claimed(box[item.key], workers[w].since)]
        BY <1>3, ClaimEffect
  <2>2. QED BY <1>0, <2>1
<1>4. ASSUME NEW w \in Workers, Update(w)
      PROVE  box'[k] = box[k]
  <2>1. PICK item : item = workers[w].item
        OBVIOUS
  <2>2. item.key \in Keys /\ item.id \in Ids /\ Holds(w, item.key, item.id)
        BY <1>0, <1>4, <2>1, NullAssumption
        DEF OutboxInv, InHand, Update, Worker, Item, Holds
  <2>3. box[item.key] # NoEntry /\ box[item.key].id = item.id => item.key # k
        BY <1>0, <2>2 DEF Alone
  <2>4. QED BY <1>0, <1>4, <2>1, <2>3 DEF Update
<1>5. ASSUME NEW w \in Workers, Prune(w)
      PROVE  box'[k] = box[k]
      BY <1>5 DEF Prune
<1>6. CASE PurgeDead
      BY <1>1, <1>6 DEF PurgeDead
<1>7. ASSUME NEW c \in Slots, CallStep(c) \/ ReceiverDies(c)
      PROVE  box'[k] = box[k]
      BY <1>7, CallEffect
<1>8. CASE Tick
  <2>1. PICK wait, since, held :
            box'[k] = [box[k] EXCEPT !.wait = wait, !.since = since, !.held = held]
        BY <1>8 DEF Tick
  <2>2. QED BY <1>0, <2>1 DEF Entry
<1>9. QED
      BY <1>1, <1>2, <1>3, <1>4, <1>5, <1>6, <1>7, <1>8
      DEF Next, WorkerStep, StartPass, GiveUp, Crash

\* With prompt deliveries a message is in one pair of hands throughout.
LEMMA AloneInvariant ==
    ASSUME Timely
    PROVE  Spec => [](OutboxInv /\ Alone)
<1>1. Init => OutboxInv /\ Alone
      BY OutboxInit DEF Init, Alone, Holds, Carries, Idle
<1>2. OutboxInv /\ Alone /\ [Next]_vars => (OutboxInv /\ Alone)'
  <2>1. ASSUME Alone, UNCHANGED vars
        PROVE  Alone'
        BY <2>1 DEF vars, Alone, Holds, Carries, RowOpen, Open
  <2>2. QED BY <2>1, OutboxStep, AloneStep
<1>3. QED BY <1>1, <1>2, PTL DEF Spec

\* A message delivered is settled for good, as long as no delivery outlasts its row's
\* lease or backoff: no worker holds an older copy of the row (_deliver_one).
THEOREM StaysSettled ==
    ASSUME Timely
    PROVE  Spec => DeliveredStays
<1>1. OutboxInv /\ Alone /\ [Next]_vars =>
        [\A k \in Keys :
            (box[k] # NoEntry /\ box[k].status = "delivered" /\ box'[k] # NoEntry)
                => box'[k].status = "delivered"]_vars
      BY StaysDelivered
<1>2. QED BY <1>1, AloneInvariant, PTL DEF Spec, DeliveredStays

\* A message's walker commits once, whatever crashes, times out or is answered late,
\* as long as no delivery outlasts its row's lease or backoff, and the receiver
\* remembers the key for longer than its message is open (replay_cached, remember).
THEOREM RunOnlyOnce ==
    ASSUME Timely, ~ InProcess
    PROVE  Spec /\ KeysOutlast => []RunsOnce
<1>1. Init => Once
      BY DEF Init, Once, Carries, Ids
<1>2. OutboxInv /\ Alone /\ Once /\ [Next]_vars /\ [Outlasts]_vars => Once'
  <2>1. ASSUME Once, UNCHANGED vars
        PROVE  Once'
        BY <2>1 DEF vars, Once, Awaits, Carries, RowOpen, Open
  <2>2. ASSUME OutboxInv, Alone, Once, [Next]_vars, [Outlasts]_vars, vars' # vars
        PROVE  Once'
        BY <2>2, OnceStep
  <2>3. QED BY <2>1, <2>2
<1>3. Once => RunsOnce
      BY DEF Once, RunsOnce
<1>4. QED BY <1>1, <1>2, <1>3, AloneInvariant, PTL DEF Spec, KeysOutlast
=============================================================================
