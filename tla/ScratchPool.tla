---------------------------- MODULE ScratchPool -----------------------------
(***************************************************************************)
(* The bump allocator the JPEG encoder takes its memory from (tmalloc.c):  *)
(* nothing is freed, and nobody looks at a NULL result.  live has, of each *)
(* object still in use, where it is and the bytes of it that are touched.  *)
(* Addresses and sizes are those of the target, a 32-bit Arm with enums as *)
(* short as they can be.                                                   *)
(***************************************************************************)
EXTENDS Integers

NULL == 0

VARIABLES pool_start, pool_top, pool_end, live

poolVars == <<pool_start, pool_top, pool_end, live>>

\* Mutant: addresses are rounded down.
AlignDown(p, a) == (p \div a) * a

align_up(p, a) == ((p + a - 1) \div a) * a

\* No workspace yet.
PoolInit == pool_start = NULL /\ pool_top = NULL /\ pool_end = NULL /\ live = {}

t_init(start, size) ==
  /\ pool_start' = start
  /\ IF align_up(start, 8) > start + size
     THEN pool_top' = NULL /\ pool_end' = NULL
     ELSE pool_top' = align_up(start, 8) /\ pool_end' = start + size
  /\ live' = {}

\* sizeof and _Alignof of what TNEW is given, and the bytes of the object that are used.
Object(name, size, alignment, used) ==
  [name |-> name, size |-> size, alignment |-> alignment, used |-> used]

Fits(object) ==
  /\ pool_top # NULL
  /\ align_up(pool_top, object.alignment) + align_up(object.size, object.alignment) <= pool_end

t_malloc(object) == IF Fits(object) THEN align_up(pool_top, object.alignment) ELSE NULL

\* TNEW: the object is in use from here on.
TNew(object) ==
  /\ live' = live \union {[name |-> object.name, alignment |-> object.alignment,
                           from |-> t_malloc(object), to |-> t_malloc(object) + object.used]}
  /\ pool_top' = IF Fits(object) THEN t_malloc(object) + align_up(object.size, object.alignment)
                 ELSE pool_top
  /\ UNCHANGED <<pool_start, pool_end>>

\* Nothing is freed, but these are not used any more.
TForget(names) == /\ live' = {o \in live : o.name \notin names}
                  /\ UNCHANGED <<pool_start, pool_top, pool_end>>

\* Each object in use is in the workspace, aligned, and its own: none came out of a NULL
\* result, and none is written over by another (jpg.c:71-74).
Held == \A o \in live :
          /\ o.from >= pool_start /\ o.to <= pool_end
          /\ o.from % o.alignment = 0
          /\ \A p \in live \ {o} : p.to <= o.from \/ o.to <= p.from
=============================================================================
