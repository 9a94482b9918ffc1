------------------------------ MODULE Interpose ------------------------------
(***************************************************************************)
(* The wrappers of run-interpose/mymalloc.c and rdma-monitor/rdma-         *)
(* monitor.c, preloaded before the libraries: the first call of a function *)
(* looks the real one up and keeps it in a static pointer.  Threads of the *)
(* program share the pointers; every access of one is a step.              *)
(***************************************************************************)
EXTENDS Integers

CONSTANTS
    Threads,
    MaxCalls,   \* bound on the calls a thread makes
    Null

Verbs == {"ibv_modify_qp", "ibv_open_device"}
Functions == {"malloc", "free"} \union Verbs

VARIABLES
    provided,     \* the functions the libraries define
    loaded,       \* libibverbs.so.1 has been opened
    ibv_handle,   \* Null or "lib"
    real,         \* mallocp, freep, real_ibv_modify_qp, real_ibv_open_device
    at, fn,       \* of a thread: the step it is at, its call
    got,          \* what dlopen or dlsym returned to it
    calls,
    exited,
    reached,      \* history: how the thread's last call ended
    clobbered     \* history: a failed dlopen overwrote a handle

vars == <<provided, loaded, ibv_handle, real, at, fn, got, calls, exited, reached, clobbered>>
pointers == <<provided, loaded, ibv_handle, real, exited, clobbered>>
private == <<fn, got, calls, reached>>

Goto(t, step) == at' = [at EXCEPT ![t] = step]

\* The outcome of a call: "real", "error", "null", or "self" when the wrapper
\* is reached again instead of the function it wraps.
Return(t, outcome) ==
    /\ at' = [at EXCEPT ![t] = IF outcome \in {"null", "self"} THEN "stuck" ELSE "idle"]
    /\ reached' = [reached EXCEPT ![t] = outcome]

Init ==
    /\ provided \in {Functions, Functions \ {"free"}, Functions \ {"ibv_modify_qp"}}
    /\ loaded = FALSE /\ ibv_handle = Null
    /\ real = [f \in Functions |-> Null]
    /\ at = [t \in Threads |-> "idle"]
    /\ fn = [t \in Threads |-> "malloc"]
    /\ got = [t \in Threads |-> Null]
    /\ calls = [t \in Threads |-> 0]
    /\ exited = FALSE
    /\ reached = [t \in Threads |-> "none"]
    /\ clobbered = FALSE

\* free(NULL) returns before it looks anything up.
Enter(t) ==
    /\ at[t] = "idle" /\ calls[t] < MaxCalls
    /\ calls' = [calls EXCEPT ![t] = @ + 1]
    /\ \E f \in Functions :
        /\ fn' = [fn EXCEPT ![t] = f]
        /\ reached' = [reached EXCEPT ![t] = "none"]
        /\ \/ f \in Verbs /\ Goto(t, "handle")
           \/ f \notin Verbs /\ Goto(t, "bound")
           \/ f = "free" /\ UNCHANGED at
    /\ UNCHANGED <<pointers, got>>

CheckHandle(t) ==
    /\ at[t] = "handle"
    /\ Goto(t, IF ibv_handle = Null THEN "open" ELSE "bound")
    /\ UNCHANGED <<pointers, private>>

\* dlopen fails or not, until the library is there; then it only counts.
Open(t) ==
    /\ at[t] = "open"
    /\ \/ got' = [got EXCEPT ![t] = "lib"] /\ loaded' = TRUE
       \/ ~loaded /\ got' = [got EXCEPT ![t] = Null] /\ UNCHANGED loaded
    /\ Goto(t, "opened")
    /\ UNCHANGED <<provided, ibv_handle, real, exited, clobbered, fn, calls, reached>>

StoreHandle(t) ==
    /\ at[t] = "opened"
    /\ ibv_handle' = got[t]
    /\ clobbered' = (clobbered \/ (ibv_handle # Null /\ got[t] = Null))
    /\ Goto(t, "reread")
    /\ UNCHANGED <<provided, loaded, real, exited, private>>

CheckOpened(t) ==
    /\ at[t] = "reread"
    /\ \/ ibv_handle # Null /\ Goto(t, "bound") /\ UNCHANGED reached
       \/ ibv_handle = Null /\ Return(t, "error")
    /\ UNCHANGED <<pointers, fn, got, calls>>

CheckBound(t) ==
    /\ at[t] = "bound"
    /\ Goto(t, IF real[fn[t]] = Null THEN "bind" ELSE "call")
    /\ UNCHANGED <<pointers, private>>

\* dlsym; a NULL handle is RTLD_DEFAULT, whose first match is the preloaded
\* wrapper.
dlsym(f) ==
    CASE f \in Verbs /\ ibv_handle = Null -> "self"
      [] f \in provided                   -> "real"
      [] OTHER                            -> Null

Bind(t) ==
    /\ at[t] = "bind"
    /\ got' = [got EXCEPT ![t] = dlsym(fn[t])]
    /\ Goto(t, "bound_to")
    /\ UNCHANGED <<pointers, fn, calls, reached>>

\* Mutant: what dlsym returned is not checked.
StoreRealUnchecked(t) ==
    /\ at[t] = "bound_to"
    /\ real' = [real EXCEPT ![fn[t]] = got[t]]
    /\ Goto(t, "call") /\ UNCHANGED exited
    /\ UNCHANGED <<provided, loaded, ibv_handle, clobbered, private>>

\* malloc and free ask dlerror, which is the thread's own, and exit; the verbs
\* look at the pointer again.
StoreReal(t) ==
    /\ at[t] = "bound_to"
    /\ real' = [real EXCEPT ![fn[t]] = got[t]]
    /\ \/ fn[t] \in Verbs /\ Goto(t, "check") /\ UNCHANGED exited
       \/ fn[t] \notin Verbs /\ got[t] # Null /\ Goto(t, "call") /\ UNCHANGED exited
       \/ fn[t] \notin Verbs /\ got[t] = Null /\ Goto(t, "idle") /\ exited' = TRUE
    /\ UNCHANGED <<provided, loaded, ibv_handle, clobbered, private>>

CheckReal(t) ==
    /\ at[t] = "check"
    /\ \/ real[fn[t]] # Null /\ Goto(t, "call") /\ UNCHANGED reached
       \/ real[fn[t]] = Null /\ Return(t, "error")
    /\ UNCHANGED <<pointers, fn, got, calls>>

Call(t) ==
    /\ at[t] = "call"
    /\ Return(t, IF real[fn[t]] = Null THEN "null" ELSE real[fn[t]])
    /\ UNCHANGED <<pointers, fn, got, calls>>

\* Between the calls a thread does what it likes.
Bound(t) ==
    \/ CheckHandle(t) \/ Open(t) \/ StoreHandle(t) \/ CheckOpened(t)
    \/ CheckBound(t) \/ Bind(t) \/ StoreReal(t) \/ CheckReal(t) \/ Call(t)

Next == ~exited /\ \E t \in Threads : Enter(t) \/ Bound(t)
Spec == Init /\ [][Next]_vars

-----------------------------------------------------------------------------
(* Properties.                                                             *)

\* A call reaches the real function, and a missing function is reported: by
\* an error from a verb, with the end of the program from malloc and free.
\* No call goes through a null pointer or back into the wrapper, whichever
\* threads bind the function at the same time - unless a dlopen that failed
\* took the handle away from a thread whose dlopen had not.
ReachesLibrary ==
    /\ exited => {"malloc", "free"} \ provided # {}
    /\ ~clobbered => \A t \in Threads :
        /\ reached[t] \notin {"null", "self"}
        /\ reached[t] = "real" => fn[t] \in provided
        /\ reached[t] = "error" =>
              fn[t] \in Verbs /\ (fn[t] \in provided => got[t] = Null)
=============================================================================
