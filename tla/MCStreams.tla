------------------------------ MODULE MCStreams ------------------------------
(* Small instances of Streams for TLC. *)
EXTENDS Streams

Ways(chain, sources, mids, sinks) ==
    {[chain |-> chain, source |-> a, mid |-> m, sink |-> b] :
        a \in sources, m \in mids, b \in sinks}

\* (Not a source that pushes from within _read into a Transform, nor a
\* Transform before a slow sink: see the findings.)
MCSetups ==
    Ways(<<"src", "dst">>, {"sync", "async", "iter"}, {"sync"}, {"sync", "async"})
    \cup Ways(<<"src", "mid", "dst">>, {"async", "iter"}, {"sync", "async"}, {"sync"})
    \cup Ways(<<"src">>, {"sync", "async", "iter"}, {"sync"}, {"sync"})
    \cup Ways(<<"dst">>, {"writer"}, {"sync"}, {"sync", "async"})

MCSlowSink == Ways(<<"src", "mid", "dst">>, {"async"}, {"sync"}, {"async"})
MCEager    == Ways(<<"src", "mid", "dst">>, {"sync"}, {"sync"}, {"sync"})
=============================================================================
