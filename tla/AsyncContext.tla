---------------------------- MODULE AsyncContext ----------------------------
(***************************************************************************)
(* async_hooks.js: the execution context of the calls the event loop makes,  *)
(* with an AsyncLocalStorage, a hook, AsyncResources, timers and promise      *)
(* reactions.  A resource stands for its async id too; 0 is the bootstrap     *)
(* resource.  The engine's own promise hooks are off.                        *)
(***************************************************************************)
EXTENDS Integers, Sequences, FiniteSets, SequencesExt

CONSTANTS MaxResources, MaxDepth, Stores,
          MaxCalls,       \* of a resource's callback
          ContextFaults   \* "same": enterWith within run() of the store there is; "again": in a call of a resource that is called again;
                          \* "reenter": a resource's scope is entered within itself;
                          \* "exit": anything but getStore within exit(); "clearSelf": a timeout is cleared by its callback

VARIABLES current,        \* _executionAsyncResource and _executionAsyncId
          stores,         \* what each resource keeps for the AsyncLocalStorage
          enabled,        \* of the AsyncLocalStorage
          scopes,         \* calls under way, innermost last: [kind, resource, saved, sees]
          resources,      \* made so far: [kind, state, sees], state "pending", "ran" or "destroyed"
          hooked          \* what the hook was told of each resource

contextVars == <<current, stores, enabled, scopes, resources, hooked>>

None == 0
Top    == Last(scopes)
Inside == scopes # <<>>
Deeper == Len(scopes) < MaxDepth

getStore == IF enabled THEN stores[current] ELSE None

\* emitBefore pushes what emitAfter pops.
Enters(r, kind, sees) ==
    /\ scopes' = Append(scopes, [kind |-> kind, resource |-> r, saved |-> current, sees |-> sees])
    /\ current' = r
Told(r, what) == hooked' = [hooked EXCEPT ![r] = @ \o what]

Count(s, x) == Len(SelectSeq(s, LAMBDA y : y = x))
Callable(r) == Count(hooked[r], "before") < MaxCalls

Outside == Top.kind # "exit" \/ "exit" \in ContextFaults

-----------------------------------------------------------------------------
(* AsyncLocalStorage.                                                      *)

\* run: nothing is changed when the store is the one there is.
Run ==
    /\ Inside /\ Deeper /\ Outside /\ UNCHANGED <<current, resources, hooked>>
    /\ \E v \in Stores :
          IF v = getStore
          THEN scopes' = Append(scopes, [kind |-> "same", resource |-> current, saved |-> None, sees |-> v]) /\ UNCHANGED <<stores, enabled>>
          ELSE /\ scopes' = Append(scopes, [kind |-> "run", resource |-> current, saved |-> stores[current], sees |-> v])
               /\ stores' = [stores EXCEPT ![current] = v] /\ enabled' = TRUE

\* Mutant: what was there before is not put back.
RestoredNone(old) == None
Restored(old) == old

\* The callback returns or throws.
RunEnds ==
    /\ Inside /\ Top.kind \in {"run", "same"} /\ UNCHANGED <<current, enabled, resources, hooked>>
    /\ scopes' = Front(scopes)
    /\ stores' = IF Top.kind = "run" THEN [stores EXCEPT ![Top.resource] = Restored(Top.saved)] ELSE stores

enterWith ==
    /\ Inside /\ Outside /\ UNCHANGED <<current, resources, hooked>>
    /\ Top.kind = "same" => "same" \in ContextFaults
    /\ Top.kind \in {"interval", "resource"} => "again" \in ContextFaults
    /\ \E v \in Stores : stores' = [stores EXCEPT ![current] = v] /\ enabled' = TRUE
                         /\ scopes' = [scopes EXCEPT ![Len(scopes)].sees = v]

\* exit: disabled for everything until the callback is over.
Exit ==
    /\ Inside /\ Deeper /\ enabled /\ UNCHANGED <<current, stores, resources, hooked>>
    /\ scopes' = Append(scopes, [kind |-> "exit", resource |-> current, saved |-> None, sees |-> None]) /\ enabled' = FALSE
ExitEnds == /\ Inside /\ Top.kind = "exit" /\ scopes' = Front(scopes) /\ enabled' = TRUE
            /\ UNCHANGED <<current, stores, resources, hooked>>

-----------------------------------------------------------------------------
(* Resources: timers, immediates and intervals, promise reactions, and the   *)
(* AsyncResources of the program.                                           *)

Kinds == {"timeout", "interval", "reaction", "resource"}

\* Mutant: the store is taken from the bootstrap resource.
PropagatedBase == IF enabled THEN stores[0] ELSE None
\* _propagate.
Propagated == IF enabled THEN stores[current] ELSE None

Schedule ==
    /\ Inside /\ Outside /\ Len(resources) < MaxResources /\ UNCHANGED <<current, enabled, scopes>>
    /\ \E kind \in Kinds :
          /\ resources' = Append(resources, [kind |-> kind, state |-> "pending", sees |-> getStore])
          /\ stores' = [stores EXCEPT ![Len(resources) + 1] = Propagated]
    /\ Told(Len(resources) + 1, <<"init">>)

\* runInAsyncScope, as often as the program likes, within any other call.
RunInAsyncScope ==
    \E r \in DOMAIN resources :
        /\ Inside /\ Deeper /\ Outside /\ Callable(r) /\ resources[r].kind = "resource" /\ resources[r].state # "destroyed"
        /\ "reenter" \in ContextFaults \/ \A k \in DOMAIN scopes : scopes[k].resource # r
        /\ Enters(r, "resource", resources[r].sees) /\ Told(r, <<"before">>)
        /\ UNCHANGED <<stores, enabled, resources>>

\* The loop calls a timer's callback or a reaction.
Fire ==
    \E r \in DOMAIN resources :
        /\ ~ Inside /\ Callable(r) /\ resources[r].state = "pending" /\ resources[r].kind # "resource"
        /\ Enters(r, resources[r].kind, resources[r].sees) /\ Told(r, <<"before">>)
        /\ resources' = [resources EXCEPT ![r].state = IF resources[r].kind = "interval" THEN @ ELSE "ran"]
        /\ UNCHANGED <<stores, enabled>>

\* Mutant: an interval's resource is destroyed after its first call.
AfterAll(kind, state) == <<"after", "destroy">>
\* emitAfter, and emitDestroy for a timer that is not called again.
After(kind, state) == IF kind = "timeout" THEN <<"after", "destroy">> ELSE <<"after">>

ScopeEnds ==
    /\ Inside /\ Top.kind \in Kinds /\ UNCHANGED <<stores, enabled>>
    /\ scopes' = Front(scopes) /\ current' = Top.saved
    /\ Told(Top.resource, After(Top.kind, resources[Top.resource].state))
    /\ resources' = [resources EXCEPT ![Top.resource].state = IF Top.kind = "timeout" THEN "destroyed" ELSE @]

\* clearTimeout and clearInterval, and emitDestroy() of an AsyncResource.
Destroy ==
    \E r \in DOMAIN resources :
        /\ Inside /\ Outside /\ resources[r].kind # "reaction" /\ resources[r].state # "destroyed"
        /\ resources[r].state = "ran" => "clearSelf" \in ContextFaults
        /\ resources' = [resources EXCEPT ![r].state = "destroyed"] /\ Told(r, <<"destroy">>)
        /\ UNCHANGED <<current, stores, enabled, scopes>>

MainEnds == Inside /\ Top.kind = "main" /\ scopes' = <<>> /\ UNCHANGED <<current, stores, enabled, resources, hooked>>

ContextInit ==
    /\ current = 0 /\ stores = [r \in 0 .. MaxResources |-> None] /\ enabled = TRUE /\ resources = <<>>
    /\ scopes = <<[kind |-> "main", resource |-> 0, saved |-> 0, sees |-> None]>> /\ hooked = [r \in 1 .. MaxResources |-> <<>>]
ContextIdle ==
    /\ current = 0 /\ stores = <<>> /\ enabled = FALSE /\ resources = <<>> /\ scopes = <<>> /\ hooked = <<>>

ContextNext == \/ Run \/ RunEnds \/ enterWith \/ Exit \/ ExitEnds \/ Schedule \/ RunInAsyncScope \/ Fire
               \/ ScopeEnds \/ Destroy \/ MainEnds

-----------------------------------------------------------------------------
\* Whoever runs sees the store of the call it is in: the one given to run() or
\* enterWith, the one there was where the timer, the reaction or the resource
\* was made, and none within exit(); when all is over the context is that of the
\* beginning.
ContextKept ==
    /\ Inside => getStore = Top.sees
    /\ ~ Inside => current = 0

\* The hook hears of a resource first that it was made, of every call that it
\* begins and that it ends, of its end once, and of no call that begins after.
HookTold ==
    \A r \in DOMAIN resources :
        LET h == hooked[r]
            under == Cardinality({k \in DOMAIN scopes : scopes[k].kind \in Kinds /\ scopes[k].resource = r})
        IN  /\ h[1] = "init" /\ Count(h, "init") = 1 /\ Count(h, "destroy") <= 1
            /\ Count(h, "before") = Count(h, "after") + under
            /\ \A i \in 1 .. Len(h) - 1 : h[i] = "destroy" => h[i + 1] = "after"
=============================================================================
