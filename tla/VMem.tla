-------------------------------- MODULE VMem ---------------------------------
(***************************************************************************)
(* Physical and virtual memory: the allocation table (kern/pmm/MAT...),    *)
(* the containers that ration it (MContainer), the two-level page tables   *)
(* (kern/vmm/MPT...), and the code that asks for pages: page faults, the   *)
(* copies between kernel and user space (kern/lib/pmap.c) and elf_load.    *)
(*                                                                         *)
(* The memory is one record, and the functions are operators on it.  Page  *)
(* 0 is the kernel's, so 0 stands for no page everywhere, as in the code.  *)
(* Only user addresses are kept: the entries of the kernel part of a page  *)
(* directory are the identity from boot on.  Permissions are left out.     *)
(***************************************************************************)
EXTENDS MContainer, Sequences, FiniteSetsExt, Functions

CONSTANTS PAGESIZE,
          MemMap,               \* the memory map: <<start, length, usable>>
          USERLO_PI, USERHI_PI, \* user pages are USERLO_PI .. USERHI_PI - 1
          Pdes, Ptes,           \* indices of the user part of a directory
                                \* and of a page table
          Image,                \* the addresses of a program's segments
          ShellQuota,           \* the quota kern_main gives
          Quotas,               \* the quotas programs pass to sys_spawn
          Mortals               \* the processes that exit

ASSUME MemAssumption ==
  /\ PAGESIZE \in Nat \ {0}
  /\ MemMap \in Seq(Word \X Word \X BOOLEAN) /\ MemMap # <<>>
  /\ USERLO_PI \in Nat \ {0} /\ USERHI_PI \in Word /\ USERLO_PI < USERHI_PI
  /\ Image \in Seq(Pdes \X Ptes)
  /\ ShellQuota \in Word /\ Quotas \subseteq Word
  /\ Mortals \subseteq Ids

VAddrs == Pdes \X Ptes

-----------------------------------------------------------------------------

P == INSTANCE MATInit

NPS == P!Nps(MemMap)

Pages == 0 .. NPS - 1

Normal == P!NormalPages(MemMap)

MemType == [cont : ContainerType,
            at   : SUBSET Pages,
            last : Nat,
            pdir : [Ids -> [Pdes -> Pages]],
            ptbl : [Pages -> [Ptes -> Pages]]]

(* paging_init and what it calls: nothing is allocated, no user address is  *)
(* mapped.                                                                  *)
PagingInit ==
  [cont |-> ContainerInit(Cardinality(Normal)),
   at   |-> {},                        \* allocated pages
   last |-> USERLO_PI,                 \* last_palloc_index
   pdir |-> [p \in Ids |-> [d \in Pdes |-> 0]],
   ptbl |-> [i \in Pages |-> [t \in Ptes |-> 0]]]

-----------------------------------------------------------------------------

(* palloc: the first free page after the last one handed out, or 0.         *)
Free(m) == Normal \ m.at

(* Mutant: a page in use is taken.                                          *)
PallocUsed(m) ==
  LET F == {i \in Normal : i > m.last} IN IF F = {} THEN 0 ELSE Min(F)

Palloc(m) ==
  LET F == {i \in Free(m) : i > m.last} IN IF F = {} THEN 0 ELSE Min(F)

(* container_alloc: the memory after it, and the page it returns.           *)
AllocPhys(m, id) ==
  IF AtQuota(m.cont, id) THEN [mem |-> m, page |-> 0]
  ELSE LET i == Palloc(m)
       IN  [mem  |-> [m EXCEPT !.cont = ContainerAlloc(m.cont, id),
                               !.at = @ \cup ({i} \ {0}),
                               !.last = i % NPS],
            page |-> i]

(* get_ptbl_entry_by_va.                                                    *)
Pte(m, p, va) ==
  IF m.pdir[p][va[1]] = 0 THEN 0 ELSE m.ptbl[m.pdir[p][va[1]]][va[2]]

SetPte(m, p, va, i) == [m EXCEPT !.ptbl[m.pdir[p][va[1]]][va[2]] = i]

(* alloc_ptbl: a cleared page becomes the page table for va.                *)
AllocPtbl(m, p, va) ==
  LET r == AllocPhys(m, p)
  IN  IF r.page = 0 THEN r
      ELSE [r EXCEPT !.mem.pdir[p][va[1]] = r.page,
                     !.mem.ptbl[r.page] = [t \in Ptes |-> 0]]

(* map_page; ok is whether it returns other than MagicNumber.               *)
MapPage(m, p, va, i) ==
  IF m.pdir[p][va[1]] # 0 THEN [mem |-> SetPte(m, p, va, i), ok |-> TRUE]
  ELSE LET r == AllocPtbl(m, p, va)
       IN  IF r.page = 0 THEN [mem |-> r.mem, ok |-> FALSE]
           ELSE [mem |-> SetPte(r.mem, p, va, i), ok |-> TRUE]

AllocPage(m, p, va) ==
  LET r == AllocPhys(m, p)
  IN  IF r.page = 0 THEN [mem |-> r.mem, ok |-> FALSE]
      ELSE MapPage(r.mem, p, va, r.page)

(* One round of pt_copyin, pt_copyout or pt_memset: the page is allocated   *)
(* if need be, and nobody looks whether that worked.                        *)
CopyPage(m, p, va) == IF Pte(m, p, va) # 0 THEN m ELSE AllocPage(m, p, va).mem

(* elf_load: every page of a segment is allocated, then filled.             *)
ElfLoad(m, p) ==
  LET load[k \in 0 .. Len(Image)] ==
        IF k = 0 THEN m
        ELSE CopyPage(AllocPage(load[k - 1], p, Image[k]).mem, p, Image[k])
  IN  load[Len(Image)]

(* proc_create, as far as memory goes.                                      *)
ProcCreate(m, id, n) ==
  ElfLoad([m EXCEPT !.cont = ContainerSplit(m.cont, id, n)],
          NextChild(m.cont, id))

-----------------------------------------------------------------------------

VARIABLES mem,
          dead,         \* the processes that have exited
          panicked

vars == <<mem, dead, panicked>>

TypeOK == mem \in MemType /\ dead \subseteq Ids /\ panicked \in BOOLEAN

Init ==
  /\ mem = ProcCreate(PagingInit, 0, ShellQuota)
  /\ dead = {}
  /\ panicked = FALSE

Procs == {p \in Ids \ {0} : mem.cont.used[p] /\ p \notin dead}

(* pgflt_handler.  A fault on a present page has no place here: it is a     *)
(* protection fault, which panics at once.                                  *)
PageFault(p, va) ==
  /\ p \in Procs
  /\ Pte(mem, p, va) = 0
  /\ LET r == AllocPage(mem, p, va) IN mem' = r.mem /\ panicked' = ~r.ok
  /\ UNCHANGED dead

(* A system call copies to or from the user address va.                     *)
Copy(p, va) ==
  /\ p \in Procs
  /\ mem' = CopyPage(mem, p, va)
  /\ UNCHANGED <<dead, panicked>>

SysSpawn(p, n) ==
  /\ p \in Procs
  /\ CanConsume(mem.cont, p, n)
  /\ NUM_IDS >= p * MAX_CHILDREN + 1 + MAX_CHILDREN
  /\ mem.cont.nchildren[p] # MAX_CHILDREN
  /\ mem' = ProcCreate(mem, p, n)
  /\ UNCHANGED <<dead, panicked>>

(* sys_exit and SIGKILL give the quota back to the parent; no page is freed *)
(* and the page tables stay.                                                *)
SysExit(p) ==
  /\ p \in Procs \cap Mortals
  /\ mem' = [mem EXCEPT !.cont = Refund(mem.cont, mem.cont.parent[p],
                                        mem.cont.quota[p])]
  /\ dead' = dead \cup {p}
  /\ UNCHANGED panicked

Next ==
  /\ ~panicked
  /\ \E p \in Ids :
       \/ \E va \in VAddrs : PageFault(p, va) \/ Copy(p, va)
       \/ \E n \in Quotas : SysSpawn(p, n)
       \/ SysExit(p)

Spec == Init /\ [][Next]_vars
-----------------------------------------------------------------------------

(* What page i is used for: as a page table, or for an address.             *)
Tables(i) == {x \in Ids \X Pdes : mem.pdir[x[1]][x[2]] = i}

Mapped(i) == {x \in Ids \X VAddrs : Pte(mem, x[1], x[2]) = i}

Uses(i) == Cardinality(Tables(i)) + Cardinality(Mapped(i))

(* Address spaces are disjoint: alloc_page never hands out a page that some *)
(* process, dead or alive, maps or uses as a page table, nor one outside    *)
(* the usable user pages.                                                   *)
Isolated ==
  /\ TypeOK
  /\ \A i \in Pages \ {0} :
       Uses(i) > 0 => Uses(i) = 1 /\ i \in Normal /\ i \in mem.at

(* usage covers everything a process has: the pages it maps, its page       *)
(* tables and the quotas of its children that are alive.                    *)
OwnPages(p) == Cardinality({i \in Pages \ {0} :
                 \/ \E x \in Tables(i) : x[1] = p
                 \/ \E x \in Mapped(i) : x[1] = p})

Children(p) == {q \in Procs : mem.cont.parent[q] = p}

Charged ==
  \A p \in Procs :
    OwnPages(p) + SumFunctionOnSet(mem.cont.quota, Children(p))
      <= mem.cont.usage[p]

(* container_split "can assume it is safe to allocate [quota] pages": every *)
(* page is charged, and as long as no dead process keeps pages, a quota     *)
(* that sys_spawn's check lets pass is that many free pages, and where      *)
(* quotas suffice for programs elf_load has mapped every address of each.   *)
SplitBacked ==
  /\ Charged
  /\ dead = {} =>
       \A p \in Procs :
         /\ \A n \in Quotas : CanConsume(mem.cont, p, n) => n <= Cardinality(Free(mem))
         /\ \A k \in DOMAIN Image : Pte(mem, p, Image[k]) # 0
=============================================================================
