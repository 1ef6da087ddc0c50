----------------------------- MODULE AssemblyClose -----------------------------
(*******************************************************************************)
(* Closing an assembly (internal/cli/assembly_lifecycle.go): the first of any  *)
(* number of Close calls fences the work of the assembly and starts one owner, *)
(* which stops and joins everything that may use a resource, in a fixed order, *)
(* and releases each resource behind its last user.  A call waits for the      *)
(* owner, but no longer than its own context and the budget of the owner.      *)
(*                                                                             *)
(* The run slot is RunSlotGuard itself: its runs are the runs of the assembly. *)
(* Everything else that uses resources is a kind of work, of which one piece   *)
(* is followed: it may begin until its kind is barred, and ends some time      *)
(* later.  The assembly modelled has a bound durable session.                  *)
(*******************************************************************************)
EXTENDS RunSlotGuard, Sequences

CONSTANT Closers   \* calls of AgentAssembly.Close

VARIABLES
    at,        \* per call of Close: where it stands
    owner,     \* the step of Plan the owner is at, 0 before, Done after
    outcome,   \* why the owner gave up, if it has
    owned,     \* kinds of work the owner knows of
    barred,    \* kinds of which no piece can begin any more
    work,      \* per kind: its piece of work
    released,  \* resources that were closed
    expired    \* assemblyCloseBudget has passed since the first Close

closeVars == <<at, owner, outcome, owned, barred, work, released, expired>>
ownerVars == <<owner, outcome, released>>
workVars == <<owned, barred, work>>
assemblyVars == <<vars, closeVars>>

(* The HTTP server and a reloader are made later and handed to the owner.      *)
HandedOver == {"server", "reload"}

Kinds == HandedOver \union
         {"child", "memory", "switch", "plugin", "extraction", "transition"}

Resources == {"clients", "acp", "tools", "session", "store", "memstore",
              "bus", "model"}

(* What each kind of work works on; a run may work on all of them.             *)
Uses == [child      |-> {},
         server     |-> {"bus"},
         memory     |-> {"memstore", "bus", "model"},
         switch     |-> {"model"},
         reload     |-> {"clients"},
         plugin     |-> {"clients"},
         extraction |-> {"memstore", "bus", "model"},
         transition |-> {"session"}]

-------------------------------------------------------------------------------
(* The owner's plan: requestStop and closeResources, step by step.  A step     *)
(* waits until the work it joins has ended, bars kinds of work and releases    *)
(* resources.  A step is doubtful if what it calls may panic or return without *)
(* the proof that it has ended, in which case the owner stops there.           *)
(* The wait for idle and the durable session have actions of their own.        *)

Nothing == [bars |-> {}, joins |-> {}, closes |-> {}, doubtful |-> FALSE]

Stop(k) == [Nothing EXCEPT !.bars = {k}]
Join(k) == [Nothing EXCEPT !.joins = {k}]
Free(r) == [Nothing EXCEPT !.closes = {r}]
MayHang(step) == [step EXCEPT !.doubtful = TRUE]

Idle == Nothing
Session == Free("session")

Plan ==
    <<Stop("child"), Stop("memory"), Stop("reload"),
      Join("child"), MayHang(Join("server")), Idle, Join("memory"),
      Stop("switch"), Join("switch"), MayHang(Join("reload")),
      Stop("plugin"), MayHang(Join("plugin")), MayHang(Free("clients")),
      MayHang(Free("acp")), MayHang(Free("tools")),
      Stop("transition"), Session, Free("store"),
      Join("extraction"), Free("memstore"), Free("bus"), MayHang(Free("model"))>>

Done == Len(Plan) + 1

AssemblyInit ==
    /\ Init
    /\ at = [k \in Closers |-> "new"]
    /\ owner = 0
    /\ outcome = "none"
    /\ owned = Kinds \ HandedOver
    /\ barred = {}
    /\ work = [k \in Kinds |-> "none"]
    /\ released = {}
    /\ expired = FALSE

-------------------------------------------------------------------------------
(* Work.                                                                       *)

DeadlineSet == \E k \in Closers : at[k] # "new"
ReloadFenced == \E k \in Closers : at[k] \notin {"new", "fence", "once"}

\* Variant: setHTTPServer does not look at the deadline.
RegisterLate(k) ==
    /\ k \in HandedOver \ owned
    /\ k = "reload" => ~ReloadFenced
    /\ owned' = owned \union {k}
    /\ UNCHANGED <<vars, at, ownerVars, barred, work, expired>>

(* setHTTPServer and addReloader: refused once Close has begun.                *)
Register(k) ==
    /\ k \in HandedOver \ owned
    /\ IF k = "server" THEN ~DeadlineSet ELSE ~ReloadFenced
    /\ owned' = owned \union {k}
    /\ UNCHANGED <<vars, at, ownerVars, barred, work, expired>>

(* A child is begun by a run; a memory extraction by the session loop, which   *)
(* calls Close itself when it has ended.                                       *)
Begin(k) ==
    /\ work[k] = "none"
    /\ k \in owned \ barred
    /\ k = "child" => \E r \in Runs : Active(r)
    /\ k = "extraction" => ~DeadlineSet
    /\ work' = [work EXCEPT ![k] = "busy"]
    /\ UNCHANGED <<vars, at, ownerVars, owned, barred, expired>>

End(k) ==
    /\ work[k] = "busy"
    /\ work' = [work EXCEPT ![k] = "ended"]
    /\ UNCHANGED <<vars, at, ownerVars, owned, barred, expired>>

-------------------------------------------------------------------------------
(* Calls of Close.                                                             *)

Advance(k, from, to) == at[k] = from /\ at' = [at EXCEPT ![k] = to]

OnceDone == \E j \in Closers : at[j] \in {"waiting", "result", "pending"}

(* startOnce: one call goes in and fixes the deadline, the others wait for it. *)
EnterOnce(k) ==
    /\ ~DeadlineSet
    /\ Advance(k, "new", "fence")
    /\ UNCHANGED <<vars, ownerVars, workVars, expired>>

FenceReloads(k) ==
    /\ Advance(k, "fence", "admission")
    /\ UNCHANGED <<vars, ownerVars, workVars, expired>>

CloseRuns(k) ==
    /\ Advance(k, "admission", "server")
    /\ IF closed THEN UNCHANGED vars ELSE CloseAdmission
    /\ UNCHANGED <<ownerVars, workVars, expired>>

(* SealAdmission of the server that is known by now, and the owner starts.     *)
SealServer(k) ==
    /\ Advance(k, "server", "waiting")
    /\ barred' = barred \union (owned \intersect {"server"})
    /\ owner' = 1
    /\ UNCHANGED <<vars, outcome, owned, work, released, expired>>

CallOnce(k) ==
    /\ DeadlineSet
    /\ Advance(k, "new", "once")
    /\ UNCHANGED <<vars, ownerVars, workVars, expired>>

LeaveOnce(k) ==
    /\ OnceDone
    /\ Advance(k, "once", "waiting")
    /\ UNCHANGED <<vars, ownerVars, workVars, expired>>

Finished == owner = Done

ReturnResult(k) ==
    /\ Finished
    /\ Advance(k, "waiting", "result")
    /\ UNCHANGED <<vars, ownerVars, workVars, expired>>

\* Variant: a call that comes after the budget waits for done alone.
ReturnPendingInTime(k) ==
    /\ ~Finished /\ ~expired
    /\ Advance(k, "waiting", "pending")
    /\ UNCHANGED <<vars, ownerVars, workVars, expired>>

(* The context of the caller, or the budget, ends before the owner is done.    *)
ReturnPending(k) ==
    /\ ~Finished
    /\ Advance(k, "waiting", "pending")
    /\ UNCHANGED <<vars, ownerVars, workVars, expired>>

BudgetExpires ==
    /\ DeadlineSet /\ ~expired
    /\ expired' = TRUE
    /\ UNCHANGED <<vars, at, ownerVars, workVars>>

-------------------------------------------------------------------------------
(* The close owner.                                                            *)

Working == owner \in 1..Len(Plan) /\ outcome = "none"

Leave ==
    /\ owner' = owner + 1
    /\ UNCHANGED <<vars, at, outcome, owned, work, expired>>

\* markPending: done is never closed.
GiveUp(why) ==
    /\ outcome' = why
    /\ UNCHANGED <<vars, at, owner, released, workVars, expired>>

\* Variant: the owner takes the end of its budget for the end of the work.
OwnerStepInTime ==
    /\ Working /\ Plan[owner] \notin {Idle, Session}
    /\ \A k \in Plan[owner].joins \intersect owned : expired \/ work[k] # "busy"
    /\ barred' = barred \union (Plan[owner].bars \intersect owned)
    /\ released' = released \union Plan[owner].closes
    /\ Leave

OwnerStep ==
    /\ Working /\ Plan[owner] \notin {Idle, Session}
    /\ \A k \in Plan[owner].joins \intersect owned : work[k] # "busy"
    /\ barred' = barred \union (Plan[owner].bars \intersect owned)
    /\ released' = released \union Plan[owner].closes
    /\ Leave

OwnerIdle ==
    /\ Working /\ Plan[owner] = Idle
    /\ idleCloses > 0
    /\ UNCHANGED <<barred, released>>
    /\ Leave

\* A callback panics, or returns without the proof that it has ended.
OwnerUnknown ==
    /\ Working /\ Plan[owner].doubtful
    /\ GiveUp("unknown")

\* requestClose: the gate of the transitions is entered with the context of
\* the owner, which has ended once the budget has passed.
OwnerSession ==
    /\ Working /\ Plan[owner] = Session
    /\ ~expired /\ work["transition"] # "busy"
    /\ released' = released \union Session.closes
    /\ UNCHANGED barred
    /\ Leave

OwnerSessionPending ==
    /\ Working /\ Plan[owner] = Session
    /\ expired
    /\ GiveUp("session")

-------------------------------------------------------------------------------

CloseCall(k) ==
    \/ EnterOnce(k) \/ FenceReloads(k) \/ CloseRuns(k) \/ SealServer(k)
    \/ CallOnce(k) \/ LeaveOnce(k) \/ ReturnResult(k) \/ ReturnPending(k)

Owner == OwnerStep \/ OwnerIdle \/ OwnerSession \/ OwnerSessionPending

\* A step of the run slot; CloseAdmission is also called by the selector of
\* models when it has failed.
SlotStep == Next /\ UNCHANGED closeVars

AssemblyNext ==
    \/ SlotStep
    \/ \E k \in Kinds : Register(k) \/ Begin(k) \/ End(k)
    \/ \E k \in Closers : CloseCall(k)
    \/ BudgetExpires
    \/ Owner \/ OwnerUnknown

AssemblySpec == AssemblyInit /\ [][AssemblyNext]_assemblyVars

\* Calls of Close go on and return when the budget has passed, the owner goes
\* on, the timer fires, and whatever was begun ends: Close has cancelled it.
\* All these steps are finite in number, so one condition serves for all.
AssemblyProgress ==
    \/ (\E r \in Runs : Progress(r)) /\ UNCHANGED closeVars
    \/ \E k \in Kinds : End(k)
    \/ \E k \in Closers :
          \/ FenceReloads(k) \/ CloseRuns(k) \/ SealServer(k)
          \/ LeaveOnce(k) \/ ReturnResult(k)
          \/ expired /\ ReturnPending(k)
    \/ BudgetExpires
    \/ Owner

AssemblyFairSpec == AssemblySpec /\ WF_assemblyVars(AssemblyProgress)

-------------------------------------------------------------------------------
(* Properties.                                                                 *)

Returned(k) == at[k] \in {"result", "pending"}

\* No resource is closed under a run or a piece of work that works on it, and
\* none begins once what it works on is closed, also when the owner gives up
\* half way (closeResources: every producer is joined before its consumer).
NothingClosedInUse ==
    /\ \A k \in Kinds : work[k] = "busy" => Uses[k] \intersect released = {}
    /\ (\E r \in Runs : Active(r)) => released = {}

\* What a call of Close can be taken for when it returns, whichever call it
\* was: no run is admitted and the server that was handed over does not start,
\* and with a result nothing runs, nothing can begin and all is closed (the
\* fences of Close, setHTTPServer, addReloader, done).
ReturnsAreTrue ==
    \A k \in Closers :
        /\ Returned(k) => /\ closed
                          /\ "server" \in owned => "server" \in barred
        /\ at[k] = "result" =>
              /\ released = Resources
              /\ owned \ {"extraction"} \subseteq barred
              /\ \A w \in Kinds : work[w] # "busy"
              /\ \A r \in Runs : ~Active(r)

\* Every call of Close returns, whatever the owner meets, and the owner ends
\* its plan or knows why it cannot: neither the waits for idle and for the
\* work nor the once get stuck (Close, start).
CloseEnds ==
    /\ \A k \in Closers : at[k] # "new" ~> Returned(k)
    /\ DeadlineSet ~> Finished \/ outcome # "none"

\* "a timed-out close owner retains the active resources and continues its
\* serial shutdown" (assemble.go:275): only a callback that cannot be trusted
\* keeps the owner from its end, the passing of the budget does not.
ContinuesAfterBudget == DeadlineSet ~> Finished \/ outcome = "unknown"
===============================================================================
