------------------------------ MODULE Memcheck ------------------------------
(***************************************************************************)
(* The gdb memory checker of src/kernel/mm/memcheck.py, with the Flag and  *)
(* Hook classes of src/python/weenix/__init__.py that switch it on and     *)
(* deliver the kernel's events to it.                                      *)
(*                                                                         *)
(* The kernel stops at a __py_hook_<name> breakpoint for each event; Hook  *)
(* .stop runs the Python callback there and returns False, so the kernel   *)
(* goes on only after the callback has finished: the callbacks run one at  *)
(* a time, in the kernel's order.  The kernel itself is not in the         *)
(* repository, so it is the environment: any order of allocations, frees   *)
(* (a wrong free included: that is what memcheck is for), the              *)
(* "initialized" event and "shutdown".  Ghost variables record what the    *)
(* kernel really holds, so that memcheck's report can be compared with it. *)
(* Addresses are model values; a stack trace, an allocator's name and size *)
(* and the printed text are left out.                                      *)
(***************************************************************************)
EXTENDS Integers, FiniteSets, FiniteSetsExt, TLC

CONSTANTS
  Addrs,       \* addresses the kernel's allocators can return
  PageCounts,  \* the npages arguments of page_alloc and page_free
  NIL,         \* Flag._final before boot; no report yet
  MaxEvents    \* bound on the kernel's allocation and free events

ASSUME PageCounts \subseteq Nat \ {0} /\ MaxEvents \in Nat

VARIABLES
  value,        \* Flag.value of the memcheck flag, as "show" prints it
  final,        \* Flag._final: the value fixed at boot, NIL before
  on,           \* a Memcheck object exists and its hooks are registered
  mc,           \* the fields of that Memcheck object
  report,       \* what _shutdown_callback printed, NIL before shutdown
  phase,        \* the kernel: "preboot", "running" or "down"
  kinit,        \* the kernel has passed its "initialized" hook
  kslab,        \* ghost: live slab objects, each with "made during initialization"
  kpage,        \* ghost: live page allocations
  bad,          \* ghost: wrong frees the kernel made, per allocator
  events        \* allocation and free events so far

vars == <<value, final, on, mc, report, phase, kinit, kslab, kpage, bad, events>>

SlabAllocation == [initialization: BOOLEAN]
PageAllocation == [npages: PageCounts, slabdata: BOOLEAN, initialization: BOOLEAN]

\* Memcheck.__init__, lines 28-37: counters at 0, dicts empty.
NewMemcheck ==
  [slab_alloc_count |-> 0, slab_free_count |-> 0, slab_invalid_free |-> 0,
   slab_allocated |-> <<>>,
   page_alloc_count |-> 0, page_free_count |-> 0, page_invalid_free |-> 0,
   page_allocated |-> <<>>, initialized |-> FALSE]

\* del(d[addr]) on a dict modelled as a function.
Del(d, a) == [x \in DOMAIN d \ {a} |-> d[x]]

\* Flag.__init__, line 82: the default is False and nothing is fixed yet.
Init ==
  /\ value = FALSE /\ final = NIL /\ on = FALSE /\ mc = NewMemcheck
  /\ report = NIL /\ phase = "preboot" /\ kinit = FALSE
  /\ kslab = <<>> /\ kpage = <<>> /\ bad = [slab |-> 0, page |-> 0]
  /\ events = 0

(***************************************************************************)
(* "set kernel memcheck v": gdb stores v in Flag.value, then calls         *)
(* get_set_string (lines 94-99), which after boot puts _final back.        *)
(***************************************************************************)
SetFlag(v) ==
  /\ value' = IF final = NIL THEN v ELSE final
  /\ UNCHANGED <<final, on, mc, report, phase, kinit, kslab, kpage, bad, events>>

(***************************************************************************)
(* The "boot" hook: Flag.boot_callback (lines 87-89) fixes _final and      *)
(* calls MemcheckFlag.callback (memcheck.py 120-122), which creates a      *)
(* Memcheck whose __init__ registers the other hooks (lines 38-43).        *)
(***************************************************************************)
Boot ==
  /\ phase = "preboot"
  /\ final' = value
  /\ on' = value
  /\ mc' = NewMemcheck
  /\ phase' = "running"
  /\ UNCHANGED <<value, report, kinit, kslab, kpage, bad, events>>

\* A kernel event that moves an allocator: counted and bounded.
KernelEvent == phase = "running" /\ events < MaxEvents /\ events' = events + 1

(***************************************************************************)
(* slab_obj_alloc: the kernel hands out an address that is not live, and   *)
(* _slab_alloc_callback (lines 45-52) records it, marked as made during    *)
(* initialization or counted.                                              *)
(***************************************************************************)
SlabAlloc(a) ==
  /\ KernelEvent /\ a \notin DOMAIN kslab
  /\ kslab' = (a :> ~kinit) @@ kslab
  /\ mc' = IF ~on THEN mc
           ELSE [mc EXCEPT !.slab_allocated = (a :> [initialization |-> ~mc.initialized]) @@ @,
                           !.slab_alloc_count = IF mc.initialized THEN @ + 1 ELSE @]
  /\ UNCHANGED <<value, final, on, report, phase, kinit, kpage, bad>>

\* Mutant: _slab_free_callback counts every known free, those of objects
\* made during initialization included.
SlabFreeCountsAll(a) ==
  /\ KernelEvent
  /\ kslab' = Del(kslab, a)
  /\ bad' = IF a \in DOMAIN kslab THEN bad ELSE [bad EXCEPT !.slab = @ + 1]
  /\ mc' = IF ~on THEN mc
           ELSE IF a \notin DOMAIN mc.slab_allocated
           THEN [mc EXCEPT !.slab_invalid_free = @ + 1]
           ELSE [mc EXCEPT !.slab_free_count = @ + 1, !.slab_allocated = Del(@, a)]
  /\ UNCHANGED <<value, final, on, report, phase, kinit, kpage>>

(***************************************************************************)
(* slab_obj_free of any address: one that is not live is a wrong free.     *)
(* _slab_free_callback (lines 54-63) counts an unknown address as invalid, *)
(* else counts a free of an object made after initialization, and forgets *)
(* the address.                                                            *)
(***************************************************************************)
SlabFree(a) ==
  /\ KernelEvent
  /\ kslab' = Del(kslab, a)
  /\ bad' = IF a \in DOMAIN kslab THEN bad ELSE [bad EXCEPT !.slab = @ + 1]
  /\ mc' = IF ~on THEN mc
           ELSE IF a \notin DOMAIN mc.slab_allocated
           THEN [mc EXCEPT !.slab_invalid_free = @ + 1]
           ELSE [mc EXCEPT !.slab_free_count =
                             IF ~mc.slab_allocated[a].initialization THEN @ + 1 ELSE @,
                           !.slab_allocated = Del(@, a)]
  /\ UNCHANGED <<value, final, on, report, phase, kinit, kpage>>

(***************************************************************************)
(* page_alloc of n pages; slabdata is whether the caller's stack holds     *)
(* _slab_allocator_grow.  _page_alloc_callback (lines 65-72) records it    *)
(* and counts it only after initialization and outside the slab grower.    *)
(***************************************************************************)
OnPageAlloc(m, a, n, slabdata) ==
  IF ~on THEN m
  ELSE [m EXCEPT !.page_allocated =
                   (a :> [npages |-> n, slabdata |-> slabdata,
                          initialization |-> ~m.initialized]) @@ @,
                 !.page_alloc_count = IF m.initialized /\ ~slabdata THEN @ + 1 ELSE @]

\* The kernel's record of a live page allocation; byinfo: made by info.string.
KPage(n, slabdata, byinfo) ==
  [npages |-> n, slabdata |-> slabdata, initialization |-> ~kinit, byinfo |-> byinfo]

PageAlloc(a, n, slabdata) ==
  /\ KernelEvent /\ a \notin DOMAIN kpage
  /\ kpage' = (a :> KPage(n, slabdata, FALSE)) @@ kpage
  /\ mc' = OnPageAlloc(mc, a, n, slabdata)
  /\ UNCHANGED <<value, final, on, report, phase, kinit, kslab, bad>>

(***************************************************************************)
(* page_free of n pages at a: wrong when a is not live or n is not the     *)
(* count it was allocated with; the page allocator keeps no record, so the *)
(* allocation is gone either way.  _page_free_callback (lines 74-90):      *)
(* unknown address, invalid; wrong count, invalid and forgotten; else a    *)
(* counted free (outside initialization and the slab grower), forgotten.   *)
(***************************************************************************)
OnPageFree(m, a, n) ==
  IF ~on THEN m
  ELSE IF a \notin DOMAIN m.page_allocated
  THEN [m EXCEPT !.page_invalid_free = @ + 1]
  ELSE IF m.page_allocated[a].npages # n
  THEN [m EXCEPT !.page_invalid_free = @ + 1, !.page_allocated = Del(@, a)]
  ELSE LET p == m.page_allocated[a] IN
       [m EXCEPT !.page_free_count = IF ~p.initialization /\ ~p.slabdata THEN @ + 1 ELSE @,
                 !.page_allocated = Del(@, a)]

PageFree(a, n) ==
  /\ KernelEvent
  /\ kpage' = Del(kpage, a)
  /\ bad' = IF a \in DOMAIN kpage /\ kpage[a].npages = n THEN bad
            ELSE [bad EXCEPT !.page = @ + 1]
  /\ mc' = OnPageFree(mc, a, n)
  /\ UNCHANGED <<value, final, on, report, phase, kinit, kslab>>

(***************************************************************************)
(* info.string, src/python/weenix/info.py lines 7-20, behind the           *)
(* debugger's info commands, run while the kernel is stopped.  Through     *)
(* eval_func (__init__.py 193-204) it calls page_alloc_n(8) in the kernel, *)
(* so the page_alloc hook fires and memcheck records the buffer like any   *)
(* other; its stack runs on through gdb's dummy frame into the stopped     *)
(* kernel, so slabdata is whether the kernel stopped inside the slab       *)
(* grower.  Then the info function runs and its text is read, either of    *)
(* which can raise gdb.error; only when neither does, page_free_n frees    *)
(* the 8 pages.                                                            *)
(***************************************************************************)
InfoPages == 8

InfoString(a, slabdata, raises) ==
  /\ phase = "running" /\ events + 2 <= MaxEvents /\ a \notin DOMAIN kpage
  /\ events' = events + IF raises THEN 1 ELSE 2
  /\ \E m \in {OnPageAlloc(mc, a, InfoPages, slabdata)} :
       mc' = IF raises THEN m ELSE OnPageFree(m, a, InfoPages)
  /\ kpage' = IF raises THEN (a :> KPage(InfoPages, slabdata, TRUE)) @@ kpage ELSE kpage
  /\ UNCHANGED <<value, final, on, report, phase, kinit, kslab, bad>>

\* The "initialized" hook: _initialized_callback, lines 92-94.
Initialized ==
  /\ phase = "running" /\ ~kinit
  /\ kinit' = TRUE
  /\ mc' = IF on THEN [mc EXCEPT !.initialized = TRUE] ELSE mc
  /\ UNCHANGED <<value, final, on, report, phase, kslab, kpage, bad, events>>
(***************************************************************************)
(* The "shutdown" hook: _shutdown_callback, lines 96-113, reports as       *)
(* leaked every recorded allocation made after initialization (pages       *)
(* outside the slab grower, summed in pages), the counts, and the invalid  *)
(* frees.  The kernel then halts.                                          *)
(***************************************************************************)
Shutdown ==
  /\ phase = "running"
  /\ phase' = "down"
  /\ report' =
       IF ~on THEN NIL
       ELSE LET sa == mc.slab_allocated
                pa == mc.page_allocated
                lp == {x \in DOMAIN pa : ~pa[x].initialization /\ ~pa[x].slabdata}
            IN [slab_allocs |-> mc.slab_alloc_count, slab_frees |-> mc.slab_free_count,
                slab_leaked |-> {x \in DOMAIN sa : ~sa[x].initialization},
                page_allocs |-> mc.page_alloc_count, page_frees |-> mc.page_free_count,
                pages_leaked |-> MapThenSumSet(LAMBDA x : pa[x].npages, lp),
                slab_invalid |-> mc.slab_invalid_free, page_invalid |-> mc.page_invalid_free]
  /\ UNCHANGED <<value, final, on, mc, kinit, kslab, kpage, bad, events>>

Next ==
  \/ \E v \in BOOLEAN : SetFlag(v)
  \/ Boot
  \/ \E a \in Addrs : SlabAlloc(a) \/ SlabFree(a)
  \/ \E a \in Addrs, n \in PageCounts, sd \in BOOLEAN : PageAlloc(a, n, sd)
  \/ \E a \in Addrs, n \in PageCounts : PageFree(a, n)
  \/ \E a \in Addrs, sd, r \in BOOLEAN : InfoString(a, sd, r)
  \/ Initialized
  \/ Shutdown

Spec == Init /\ [][Next]_vars

-----------------------------------------------------------------------------

(***************************************************************************)
(* Memcheck's report is the truth about the kernel: the slab objects and   *)
(* pages it calls leaked are exactly those the kernel still holds from     *)
(* after initialization (pages outside the slab grower), it counts exactly *)
(* the wrong frees the kernel made, and its alloc and free counts differ   *)
(* by the number of leaked slab objects.  This holds across the            *)
(* "initialized" event, which changes how each callback counts.            *)
(***************************************************************************)
ReportExact ==
  report # NIL =>
    /\ report.slab_leaked = {x \in DOMAIN kslab : ~kslab[x]}
    /\ report.pages_leaked =
         MapThenSumSet(LAMBDA x : kpage[x].npages,
                       {x \in DOMAIN kpage : ~kpage[x].initialization /\ ~kpage[x].slabdata})
    /\ report.slab_invalid = bad.slab /\ report.page_invalid = bad.page
    /\ report.slab_allocs - report.slab_frees = Cardinality(report.slab_leaked)

(***************************************************************************)
(* The pages memcheck reports as leaked are ones the kernel's own code     *)
(* left allocated, never the buffer of an info command (info.py 13-19)     *)
(* whose info function or read raised before page_free_n.                  *)
(***************************************************************************)
LeakReportIsKernels ==
  report # NIL => \A x \in DOMAIN kpage : kpage[x].byinfo => kpage[x].slabdata \/ kpage[x].initialization
=============================================================================
