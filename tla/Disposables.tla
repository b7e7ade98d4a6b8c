---------------------------- MODULE Disposables ----------------------------
(***************************************************************************)
(* DisposableStack and AsyncDisposableStack of builtins_stubs.js: resources *)
(* are added, moved to another stack, and disposed of in reverse order.  A  *)
(* disposer runs in the middle of dispose() and may call the stack again;   *)
(* of an asynchronous one the program goes on while it is awaited.          *)
(***************************************************************************)
EXTENDS Naturals, Sequences, SequencesExt

CONSTANTS Stacks,      \* stacks there may be
          Resources,   \* resources, in the order they are added
          MayThrow     \* disposers may throw

ASSUME DisposablesAssumption == Stacks \subseteq Nat /\ Resources \subseteq Nat \ {0} /\ MayThrow \in BOOLEAN

VARIABLES heap,     \* per stack, _stack and _disposed, and whether it is being disposed of
          disposed  \* the resources in the order they were disposed of

disposeVars == <<heap, disposed>>

Nothing == 0
Held    == UNION {ToSet(heap[s].items) : s \in Stacks}
Known   == Held \cup ToSet(disposed) \cup {heap[s].running : s \in Stacks}
NextResource == {r \in Resources : \A q \in Resources : q \notin Known => r <= q} \ Known

\* use, adopt and defer: only a stack that has not been disposed of takes one.
Use ==
    \E s \in Stacks, r \in NextResource :
        /\ heap[s].made /\ ~ heap[s].disposed
        /\ heap' = [heap EXCEPT ![s].items = Append(@, r)] /\ UNCHANGED disposed

\* Mutant: the items stay with the old stack, too.
MoveCopies ==
    \E s, t \in Stacks :
        /\ heap[s].made /\ ~ heap[s].disposed /\ ~ heap[t].made /\ UNCHANGED disposed
        /\ heap' = [heap EXCEPT ![t].made = TRUE, ![t].items = heap[s].items, ![t].async = heap[s].async]

Move ==
    \E s, t \in Stacks :
        /\ heap[s].made /\ ~ heap[s].disposed /\ ~ heap[t].made /\ UNCHANGED disposed
        /\ heap' = [heap EXCEPT ![t].made = TRUE, ![t].items = heap[s].items, ![t].async = heap[s].async,
                                ![s].items = <<>>, ![s].disposed = TRUE]

\* dispose and disposeAsync; a second call does nothing.
Dispose ==
    \E s \in Stacks :
        /\ heap[s].made /\ ~ heap[s].disposed /\ UNCHANGED disposed
        /\ heap' = [heap EXCEPT ![s].disposed = TRUE, ![s].disposing = TRUE]

\* Mutant: the first resource is taken first.
DisposeNextFifo ==
    \E s \in Stacks :
        /\ heap[s].disposing /\ heap[s].running = Nothing /\ UNCHANGED disposed
        /\ heap' = IF heap[s].items = <<>> THEN [heap EXCEPT ![s].disposing = FALSE]
                   ELSE [heap EXCEPT ![s].items = Tail(@), ![s].running = Head(heap[s].items)]

\* disposeNext: the last resource is popped and its disposer called.
DisposeNext ==
    \E s \in Stacks :
        /\ heap[s].disposing /\ heap[s].running = Nothing /\ UNCHANGED disposed
        /\ heap' = IF heap[s].items = <<>> THEN [heap EXCEPT ![s].disposing = FALSE]
                   ELSE [heap EXCEPT ![s].items = Front(@), ![s].running = Last(heap[s].items)]

\* Mutant: the call ends with the first resource.
DisposedFirst ==
    \E s \in Stacks :
        /\ heap[s].running # Nothing /\ disposed' = Append(disposed, heap[s].running)
        /\ heap' = [heap EXCEPT ![s].running = Nothing, ![s].disposing = FALSE]

\* The disposer is done; one that throws ends the whole call.
Disposed ==
    \E s \in Stacks, throws \in BOOLEAN :
        /\ heap[s].running # Nothing /\ (throws => MayThrow)
        /\ disposed' = Append(disposed, heap[s].running)
        /\ heap' = [heap EXCEPT ![s].running = Nothing, ![s].disposing = ~ throws]

\* Nobody else gets a turn while a synchronous disposal runs, but its disposers.
Blocked == \E s \in Stacks : heap[s].disposing /\ ~ heap[s].async /\ heap[s].running = Nothing

DisposablesInit(first) ==
    /\ \E async \in BOOLEAN :
          /\ first = {} => ~ async
          /\ heap = [s \in Stacks |-> [made |-> s \in first, async |-> async, items |-> <<>>,
                                    disposed |-> FALSE, disposing |-> FALSE, running |-> Nothing]]
    /\ disposed = <<>>

DisposablesNext == (~ Blocked /\ (Use \/ Move \/ Dispose)) \/ DisposeNext \/ Disposed

DisposablesFair == WF_disposeVars(DisposeNext) /\ WF_disposeVars(Disposed)

-----------------------------------------------------------------------------
\* A resource belongs to one stack and is disposed of once, whoever moves and
\* disposes in the middle of it.
OneStack ==
    /\ IsInjective(disposed)
    /\ \A s, t \in Stacks : s # t => ToSet(heap[s].items) \cap ToSet(heap[t].items) = {}
    /\ Held \cap ToSet(disposed) = {}

\* A resource is never disposed of while a later one of the same stack, that
\* may use it, is still held.
ReverseOrder == \A s \in Stacks : heap[s].running # Nothing =>
                    \A r \in ToSet(heap[s].items) : r < heap[s].running

\* A stack that was disposed of gets rid of everything it held.
DisposalPending == \E s \in Stacks : heap[s].disposed /\ heap[s].items # <<>>
=============================================================================
