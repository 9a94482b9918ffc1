------------------------------- MODULE Cleanup -------------------------------
(***************************************************************************)
(* Programs that acquire resources one after the other, where each call    *)
(* may fail, and release what they hold on each way out: pcredemo,         *)
(* hyperscan-test, simple-jit-x64, the kernel module of kernel-mem-alloc,  *)
(* cpu-cache-impact and the main functions of binary-search-prefetch and   *)
(* mem-read-lat.                                                           *)
(***************************************************************************)
EXTENDS Naturals, Sequences, SequencesExt

\* A call, or a check, of a program:
\*   get    the resource that it returns, or "none" for none
\*   null   it may return NULL, and the program goes on
\*   needs  the resources it uses, which must not be NULL
\*   fails  "may", "never", or "null" when it checks needs for NULL
\*   err    the resource a failing call returns, or "none"
\*   undo   what the program releases, in order, before it gives up
Call(get, needs, undo) ==
    [get |-> get, null |-> FALSE, needs |-> needs, fails |-> "may", err |-> "none", undo |-> undo]
Nullable(get, needs) == [Call(get, needs, <<>>) EXCEPT !.null = TRUE, !.fails = "never"]
Use(needs) == [Call("none", needs, <<>>) EXCEPT !.fails = "never"]

\* Mutant: a failing pcre_study leaves the compiled expression behind.
PcreLeaking == [name |-> "pcredemo", last |-> <<"re", "sd">>, calls |-> <<
    Call("re", {}, <<>>),
    [Call("sd", {"re"}, <<>>) EXCEPT !.null = TRUE],
    Call("none", {"re"}, <<"re", "sd">>)>>]

\* pcre_compile, pcre_study (NULL is no error), pcre_exec
pcredemo == [name |-> "pcredemo", last |-> <<"re", "sd">>, calls |-> <<
    Call("re", {}, <<>>),
    [Call("sd", {"re"}, <<"re">>) EXCEPT !.null = TRUE],
    Call("none", {"re"}, <<"re", "sd">>)>>]

\* hs_compile, hs_alloc_scratch, hs_scan
hyperscan == [name |-> "hyperscan", last |-> <<"scratch", "database">>, calls |-> <<
    [Call("database", {}, <<"compile_err">>) EXCEPT !.err = "compile_err"],
    Call("scratch", {"database"}, <<"database">>),
    Call("none", {"database", "scratch"}, <<"scratch", "database">>)>>]

\* mmap, memcpy, mprotect, the call of the code
jit == [name |-> "jit", last |-> <<"m">>, calls |-> <<
    Call("m", {}, <<>>), Use({"m"}), Call("none", {"m"}, <<"m">>), Use({"m"})>>]

\* init_module succeeds without pages, too, and cleanup_module looks for them.
kernel_mem == [name |-> "kernel_mem", last |-> <<"pages">>, calls |-> <<Nullable("pages", {})>>]

\* malloc twice, and one check of both; the searches
search_main == [name |-> "search_main", last |-> <<"array", "lookups">>, calls |-> <<
    Nullable("array", {}), Nullable("lookups", {}),
    [Call("none", {"array", "lookups"}, <<"array", "lookups">>) EXCEPT !.fails = "null"],
    Use({"array", "lookups"})>>]

\* malloc, the shuffle and the walk
test_cache == [name |-> "test_cache", last |-> <<"array">>, calls |-> <<
    Call("array", {}, <<>>), Use({"array"})>>]

\* malloc, memset and the loops
cpu_cache == [test_cache EXCEPT !.name = "cpu_cache"]

Programs == {pcredemo, hyperscan, jit, kernel_mem, search_main, test_cache, cpu_cache}

-----------------------------------------------------------------------------
VARIABLES
    prog,
    next,     \* the call that comes next
    ptr,      \* ptr[r]: "unset", "null", "held" or "freed"
    todo,     \* what is left to release on the way out
    step,     \* "call", "release" or "exit"
    fault     \* something released or NULL was used, or something was released twice

vars == <<prog, next, ptr, todo, step, fault>>

Resources == {"re", "sd", "compile_err", "database", "scratch", "m", "pages", "array", "lookups"}

Init ==
    /\ prog \in Programs
    /\ next = 1 /\ todo = <<>> /\ step = "call" /\ fault = FALSE
    /\ ptr = [r \in Resources |-> "unset"]

call == prog.calls[next]
Got(r, how) == ptr' = IF r = "none" THEN ptr ELSE [ptr EXCEPT ![r] = how]
Ready == \A r \in call.needs : ptr[r] = "held"

Succeed ==
    /\ step = "call" /\ (call.fails = "null" => Ready)
    /\ fault' = (fault \/ ~Ready)
    /\ \/ Got(call.get, "held")
       \/ call.null /\ Got(call.get, "null")
    /\ IF next < Len(prog.calls)
       THEN next' = next + 1 /\ UNCHANGED <<step, todo>>
       ELSE step' = "release" /\ todo' = prog.last /\ UNCHANGED next
    /\ UNCHANGED prog

Fail ==
    /\ step = "call"
    /\ call.fails = "may" \/ (call.fails = "null" /\ ~Ready)
    /\ Got(call.err, "held")
    /\ step' = "release" /\ todo' = call.undo
    /\ UNCHANGED <<prog, next, fault>>

\* free of NULL does nothing.
Release ==
    /\ step = "release" /\ todo # <<>>
    /\ ptr' = [ptr EXCEPT ![Head(todo)] = IF @ = "held" THEN "freed" ELSE @]
    /\ fault' = (fault \/ ptr[Head(todo)] \in {"unset", "freed"})
    /\ todo' = Tail(todo)
    /\ UNCHANGED <<prog, next, step>>

Exit ==
    /\ step = "release" /\ todo = <<>>
    /\ step' = "exit"
    /\ UNCHANGED <<prog, next, ptr, todo, fault>>

Next == Succeed \/ Fail \/ Release \/ Exit

-----------------------------------------------------------------------------
(* Properties.                                                             *)

TypeOK ==
    /\ prog \in Programs /\ next \in DOMAIN prog.calls
    /\ ptr \in [Resources -> {"unset", "null", "held", "freed"}]
    /\ todo \in Seq(Resources) /\ fault \in BOOLEAN
    /\ step \in {"call", "release", "exit"}

\* Whatever call fails, the program ends with everything released that it has
\* got, nothing released twice, and nothing used that is NULL or gone.
ReleasedOnce ==
    /\ TypeOK /\ ~fault
    /\ step = "exit" => \A r \in Resources : ptr[r] # "held"
=============================================================================
