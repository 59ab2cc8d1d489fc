--------------------------- MODULE MiddlewarePipeline ---------------------------
(***************************************************************************)
(* The engine's MiddlewarePipeline.  Each run() has an index of its own,   *)
(* shared by all the next() functions it hands out; the stack is the       *)
(* pipeline's and may change while runs are under way.  A middleware may   *)
(* call next() when it likes: twice, without awaiting it, after returning. *)
(* An event stands for the middlewares that passed it on, in order,        *)
(* changed or as it was.                                                   *)
(***************************************************************************)
EXTENDS Integers, Sequences, SequencesExt, Functions

CONSTANTS
    Middlewares,  \* each is registered once
    Runs,
    MaxNexts      \* bound: calls of next() by one middleware in a run

ASSUME PipelineAssumption == MaxNexts \in Nat

VARIABLES
    stack,
    unused,  \* middlewares not registered so far
    runs     \* by run: its index, the calls of middlewares, what it resolved to (none if it did not);
             \* history: was it bent, did an event reach the end without some middleware?

pipelineVars == <<stack, unused, runs>>

PipelineInit ==
    /\ stack = <<>> /\ unused = Middlewares
    /\ runs = [r \in Runs |-> [index |-> 0, calls |-> <<>>, outcome |-> {},
                               bent |-> FALSE, missed |-> FALSE]]

Use(m) ==
    /\ m \in unused /\ unused' = unused \ {m}
    /\ stack' = Append(stack, m) /\ UNCHANGED runs

\* What a run has behind it moves to lower places: its index then skips a middleware.
Cut(kept, first) ==
    /\ stack' = kept /\ UNCHANGED unused
    /\ runs' = [r \in Runs |-> [runs[r] EXCEPT !.bent = @ \/ runs[r].index >= first]]

RemoveMiddleware(i) == i \in DOMAIN stack /\ Cut(RemoveAt(stack, i), i)
ClearMiddleware == stack # <<>> /\ Cut(<<>>, 1)

\* The promise of a next(), or of run() itself, resolves.
Resolves(run, caller, event) ==
    IF caller = 0 THEN [run EXCEPT !.outcome = {event}]
    ELSE [run EXCEPT !.calls[caller].handed = @ \cup {event}]

Invoke(run, caller, event, m) ==
    [run EXCEPT !.index = @ + 1,
                !.calls = Append(@, [mw |-> m, event |-> event, caller |-> caller,
                                     nexts |-> 0, handed |-> {}, open |-> TRUE])]

\* Mutant: the index is that of the caller, plus one.
Proceed_OwnIndex(run, caller, event) ==
    IF Len(event) >= Len(stack)
    THEN Resolves([run EXCEPT !.missed = @ \/ event # stack], caller, event)
    ELSE Invoke(run, caller, event, stack[Len(event) + 1])

\* next() inside run(): the middleware at the index, or the end of the stack.
Proceed(run, caller, event) ==
    IF run.index >= Len(stack)
    THEN Resolves([run EXCEPT !.missed = @ \/ event # stack], caller, event)
    ELSE Invoke(run, caller, event, stack[run.index + 1])

Run(r) ==
    /\ runs[r].calls = <<>> /\ runs[r].outcome = {}
    /\ runs' = [runs EXCEPT ![r] = Proceed(runs[r], 0, <<>>)]
    /\ UNCHANGED <<stack, unused>>

\* The i-th call asks for the next one: a second time, or too late, that bends the run.
Asking(run, i) ==
    [run EXCEPT !.calls[i].nexts = @ + 1, !.bent = @ \/ run.calls[i].nexts > 0 \/ ~run.calls[i].open]

PassesOn(r, i) ==
    LET call == runs[r].calls[i]
    IN  /\ call.nexts < MaxNexts
        /\ runs' = [runs EXCEPT ![r] = Proceed(Asking(runs[r], i), i, Append(call.event, call.mw))]
        /\ UNCHANGED <<stack, unused>>

\* The i-th call is over; unless all is well it bends the run.
Ended(run, i, well) == [run EXCEPT !.calls[i].open = FALSE, !.bent = @ \/ ~well]

\* It returns what a next() gave it, or its own event: the others are left out.
Returns(r, i) ==
    LET call == runs[r].calls[i]
    IN  /\ call.open
        /\ \E event \in call.handed \cup {call.event} :
             runs' = [runs EXCEPT ![r] =
                 Resolves(Ended(runs[r], i, event \in call.handed), call.caller, event)]
        /\ UNCHANGED <<stack, unused>>

\* The next() of its caller rejects, who may catch that or not; or run() does.
Throws(r, i) ==
    /\ runs[r].calls[i].open
    /\ runs' = [runs EXCEPT ![r] = Ended(runs[r], i, FALSE)]
    /\ UNCHANGED <<stack, unused>>

PipelineNext ==
    \/ \E m \in Middlewares : Use(m)
    \/ \E i \in DOMAIN stack : RemoveMiddleware(i)
    \/ ClearMiddleware
    \/ \E r \in Runs : Run(r)
    \/ \E r \in Runs : \E i \in DOMAIN runs[r].calls : PassesOn(r, i) \/ Returns(r, i) \/ Throws(r, i)

PipelineSpec == PipelineInit /\ [][PipelineNext]_pipelineVars

-------------------------------------------------------------------------------
(* Properties. *)

\* In a run no middleware is called twice, even if one before it calls next() twice or
\* after it returned, or others are registered and removed meanwhile.  And a run in which
\* each calls next() once and returns what it gave, and nothing behind the run's index is
\* removed, resolves to an event that every registered middleware has passed on.
OncePerRun ==
    \A r \in Runs :
        LET ran == [i \in DOMAIN runs[r].calls |-> runs[r].calls[i].mw]
        IN  /\ IsInjective(ran)
            /\ ~runs[r].bent => ~runs[r].missed /\ runs[r].outcome \subseteq {ran}
===============================================================================
