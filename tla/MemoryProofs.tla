---------------------------- MODULE MemoryProofs ----------------------------
(***************************************************************************)
(* Demand paging keeps every frame to one use and never faults on a stack, *)
(* for every memory map, heap, page table and stack size.                  *)
(***************************************************************************)
EXTENDS Memory, SequenceTheorems, TLAPS

-----------------------------------------------------------------------------
(***************************************************************************)
(* The inductive invariant.                                                *)
(***************************************************************************)

\* Until the panic, no call of allocate_frame has returned None.
FramesSuffice == pc # "panic" => next <= Len(Usable_frames)

\* Nothing is allocated or mapped before init_global_memory, and both statics
\* are set after it.
SetUp ==
  /\ pc = "boot" => next = 0
  /\ pc \in {"boot", "init_heap"} => todo = << >>
  /\ pc # "boot" => mapper /\ frame_allocator

\* The handler runs for a heap page that is not mapped.
FaultIsReal == pc = "fault" => cr2 \in Pages /\ page_table[cr2] = None

\* A page of a stack is mapped, or the statement that allocated the stack has
\* still to write it; between statements nothing is left to write.
StacksMapped ==
  /\ pc \in {"run", "translate"} => todo = << >>
  /\ \A s \in stacks : \A p \in Stack(s) :
       p \in Pages /\ (page_table[p] # None \/ \E i \in DOMAIN todo : todo[i] = p)

MemoryInv ==
  /\ TypeOK /\ FramesNotShared /\ NoFrameLeaked
  /\ FramesSuffice /\ SetUp /\ FaultIsReal /\ StacksMapped
  /\ PanicOnlyWhenExhausted /\ StacksNeverFault

-----------------------------------------------------------------------------
(***************************************************************************)
(* The frame allocator and the page tables.                                *)
(***************************************************************************)

\* allocate_frame returns None once the frames are used up, and never the
\* same frame twice before.
LEMMA NthProperties ==
  ASSUME NEW n \in Nat
  PROVE  /\ Nth(n) \in Frames \cup {None}
         /\ Nth(n) = None <=> n >= Len(Usable_frames)
         /\ \A m \in Nat : Nth(n) = Nth(m) /\ Nth(n) # None => n = m
<1>1. Usable_frames \in Seq(Nat) /\ Len(Usable_frames) \in Nat
      /\ DOMAIN Usable_frames = 1 .. Len(Usable_frames)
  BY MemoryMapAssumption
<1>2. ASSUME NEW m \in Nat, m < Len(Usable_frames)
      PROVE  /\ m + 1 \in DOMAIN Usable_frames
             /\ Usable_frames[m + 1] \in Nat /\ Nth(m) = Usable_frames[m + 1]
  BY <1>1, <1>2 DEF Nth
<1>3. Nth(n) \in Frames \cup {None}
  BY <1>2 DEF Nth, Frames
<1>4. ASSUME NEW m \in Nat
      PROVE  Nth(m) = None <=> m >= Len(Usable_frames)
  BY <1>1, <1>2 DEF Nth, None
<1>5. ASSUME NEW m \in Nat, Nth(n) = Nth(m), Nth(n) # None
      PROVE  n = m
  <2>1. n < Len(Usable_frames) /\ m < Len(Usable_frames)
    BY <1>1, <1>4, <1>5
  <2>2. Usable_frames[n + 1] = Usable_frames[m + 1]
        /\ n + 1 \in DOMAIN Usable_frames /\ m + 1 \in DOMAIN Usable_frames
    BY <1>2, <1>5, <2>1
  <2>3. n + 1 = m + 1
    BY <2>2, MemoryMapAssumption
  <2> QED BY <2>3
<1> QED BY <1>3, <1>4, <1>5

LEMMA TableProperties ==
  /\ P3 \in Tables /\ P2 \in Tables /\ P3 # P2
  /\ \A p \in Pages : P1(p) \in Tables /\ P1(p) # P3 /\ P1(p) # P2
<1>1. P3 \in Tables /\ P2 \in Tables /\ P3 # P2
  BY DEF P3, P2, Tables
<1>2. ASSUME NEW p \in Pages
      PROVE  P1(p) \in Tables /\ P1(p) # P3 /\ P1(p) # P2
  <2>1. (FirstSlot + p) \in Nat /\ TableSize \in Nat \ {0}
    BY HeapAssumption DEF Pages
  <2>2. (FirstSlot + p) \div TableSize \in Nat
    BY <2>1
  <2> QED BY <2>2 DEF P1, P2, P3, Tables
<1> QED BY <1>1, <1>2

\* The missing tables of a page are the ones on its path without a frame,
\* each of them once.
LEMMA MissingProperties ==
  ASSUME NEW p \in Pages
  PROVE  /\ Missing(p) \in Seq(Tables) /\ Len(Missing(p)) \in Nat
         /\ DOMAIN Missing(p) = 1 .. Len(Missing(p))
         /\ \A k \in DOMAIN Missing(p) : tables[Missing(p)[k]] = None
         /\ \A j, k \in DOMAIN Missing(p) : Missing(p)[j] = Missing(p)[k] => j = k
<1>1. P3 \in Tables /\ P2 \in Tables /\ P1(p) \in Tables
      /\ P3 # P2 /\ P1(p) # P3 /\ P1(p) # P2
  BY TableProperties
<1> DEFINE a == Absent(P3) b == Absent(P2) c == Absent(P1(p))
<1>2. ASSUME NEW t \in Tables
      PROVE  /\ Absent(t) \in Seq(Tables)
             /\ (tables[t] = None /\ Len(Absent(t)) = 1 /\ Absent(t)[1] = t)
                 \/ Len(Absent(t)) = 0
  BY DEF Absent
<1>3. /\ a \in Seq(Tables) /\ b \in Seq(Tables) /\ c \in Seq(Tables)
      /\ (tables[P3] = None /\ Len(a) = 1 /\ a[1] = P3) \/ Len(a) = 0
      /\ (tables[P2] = None /\ Len(b) = 1 /\ b[1] = P2) \/ Len(b) = 0
      /\ (tables[P1(p)] = None /\ Len(c) = 1 /\ c[1] = P1(p)) \/ Len(c) = 0
  BY <1>1, <1>2
<1>4. Missing(p) = (a \o b) \o c
  BY DEF Missing
<1> HIDE DEF a, b, c
<1>5. /\ a \o b \in Seq(Tables) /\ Len(a \o b) = Len(a) + Len(b)
      /\ \A k \in 1 .. Len(a \o b) :
           (a \o b)[k] = IF k <= Len(a) THEN a[k] ELSE b[k - Len(a)]
  BY <1>3, ConcatProperties
<1>6. /\ Missing(p) \in Seq(Tables)
      /\ Len(Missing(p)) = Len(a \o b) + Len(c)
      /\ \A k \in 1 .. Len(Missing(p)) :
           Missing(p)[k] = IF k <= Len(a \o b) THEN (a \o b)[k] ELSE c[k - Len(a \o b)]
  BY <1>3, <1>4, <1>5, ConcatProperties
<1>7. Len(Missing(p)) \in Nat /\ DOMAIN Missing(p) = 1 .. Len(Missing(p))
  BY <1>6
<1>8. /\ \A k \in 1 .. Len(Missing(p)) : tables[Missing(p)[k]] = None
      /\ \A j, k \in 1 .. Len(Missing(p)) : Missing(p)[j] = Missing(p)[k] => j = k
  <2>1. Len(a) \in {0, 1} /\ Len(b) \in {0, 1} /\ Len(c) \in {0, 1}
    BY <1>3
  <2>2. ASSUME NEW k \in 1 .. Len(Missing(p))
        PROVE  \/ k = 1 /\ Missing(p)[k] = P3 /\ tables[P3] = None
               \/ k = Len(a) + 1 /\ Missing(p)[k] = P2 /\ tables[P2] = None
               \/ k = Len(a) + Len(b) + 1 /\ Missing(p)[k] = P1(p) /\ tables[P1(p)] = None
    <3>1. CASE k <= Len(a)
      BY <1>3, <1>5, <1>6, <2>1, <3>1
    <3>2. CASE k > Len(a) /\ k <= Len(a) + Len(b)
      <4>1. Missing(p)[k] = b[k - Len(a)] /\ k - Len(a) = 1 /\ Len(b) = 1
        BY <1>5, <1>6, <2>1, <3>2
      <4> QED BY <1>3, <4>1, <2>1
    <3>3. CASE k > Len(a) + Len(b)
      <4>1. Missing(p)[k] = c[k - Len(a \o b)] /\ k - Len(a \o b) = 1 /\ Len(c) = 1
        BY <1>5, <1>6, <2>1, <3>3
      <4> QED BY <1>3, <1>5, <4>1, <2>1
    <3> QED BY <3>1, <3>2, <3>3, <2>1
  <2>3. \A k \in 1 .. Len(Missing(p)) : tables[Missing(p)[k]] = None
    BY <2>2
  <2>4. \A j, k \in 1 .. Len(Missing(p)) : Missing(p)[j] = Missing(p)[k] => j = k
    BY <2>2, <1>1
  <2> QED BY <2>3, <2>4
<1> QED BY <1>6, <1>7, <1>8

\* map_to leaves the tables that exist alone and gives the k-th missing one
\* the k-th frame after the page's.
LEMMA MapToProperties ==
  ASSUME NEW p \in Pages, TypeOK
  PROVE  /\ Map_to(p) \in [Tables -> Frames \cup {None}]
         /\ \A t \in Tables :
              \/ (\A k \in DOMAIN Missing(p) : Missing(p)[k] # t)
                 /\ Map_to(p)[t] = tables[t]
              \/ \E k \in DOMAIN Missing(p) :
                   Missing(p)[k] = t /\ Map_to(p)[t] = Nth(next + k)
<1>1. Missing(p) \in Seq(Tables) /\ DOMAIN Missing(p) = 1 .. Len(Missing(p))
      /\ Len(Missing(p)) \in Nat
  BY MissingProperties
<1>2. ASSUME NEW t \in Tables
      PROVE  /\ Map_to(p)[t] \in Frames \cup {None}
             /\ \/ (\A k \in DOMAIN Missing(p) : Missing(p)[k] # t)
                   /\ Map_to(p)[t] = tables[t]
                \/ \E k \in DOMAIN Missing(p) :
                     Missing(p)[k] = t /\ Map_to(p)[t] = Nth(next + k)
  <2>1. CASE \A k \in DOMAIN Missing(p) : Missing(p)[k] # t
    BY <2>1 DEF Map_to, TypeOK
  <2>2. CASE \E k \in DOMAIN Missing(p) : Missing(p)[k] = t
    <3> DEFINE k == CHOOSE k \in DOMAIN Missing(p) : Missing(p)[k] = t
    <3>1. k \in DOMAIN Missing(p) /\ Missing(p)[k] = t
      BY <2>2
    <3>2. Map_to(p)[t] = Nth(next + k)
      BY <2>2 DEF Map_to
    <3> HIDE DEF k
    <3>3. next + k \in Nat
      BY <3>1, <1>1 DEF TypeOK
    <3> QED BY <3>1, <3>2, <3>3, NthProperties
  <2> QED BY <2>1, <2>2
<1>3. Map_to(p) = [t \in Tables |-> Map_to(p)[t]]
  BY DEF Map_to
<1> QED BY <1>2, <1>3

-----------------------------------------------------------------------------
(***************************************************************************)
(* FramesNotShared and NoFrameLeaked without the tagged set Uses.          *)
(***************************************************************************)
Distinct(tb, pt) ==
  /\ \A t, u \in Tables : tb[t] = tb[u] /\ tb[t] # None => t = u
  /\ \A p, q \in Pages : pt[p] = pt[q] /\ pt[p] # None => p = q
  /\ \A t \in Tables, p \in Pages : tb[t] # None => tb[t] # pt[p]

Taken(tb, pt, n) ==
  /\ \A k \in 0 .. n - 1 :
       (\E t \in Tables : tb[t] = Nth(k)) \/ (\E p \in Pages : pt[p] = Nth(k))
  /\ \A t \in Tables : tb[t] # None => \E k \in 0 .. n - 1 : tb[t] = Nth(k)
  /\ \A p \in Pages : pt[p] # None => \E k \in 0 .. n - 1 : pt[p] = Nth(k)

LEMMA FrameAtForm ==
  \A x : FrameAt(<<"table", x>>) = tables[x] /\ FrameAt(<<"page", x>>) = page_table[x]
BY DEF FrameAt

LEMMA SharedForm == FramesNotShared <=> Distinct(tables, page_table)
<1>1. ASSUME FramesNotShared PROVE Distinct(tables, page_table)
  <2>1. \A t \in Tables : tables[t] # None => <<"table", t>> \in Uses
    BY DEF Uses
  <2>2. \A p \in Pages : page_table[p] # None => <<"page", p>> \in Uses
    BY DEF Uses
  <2>3. \A t, u \in Tables : tables[t] = tables[u] /\ tables[t] # None => t = u
    <3> SUFFICES ASSUME NEW t \in Tables, NEW u \in Tables,
                        tables[t] = tables[u], tables[t] # None
                 PROVE  t = u
      OBVIOUS
    <3>1. FrameAt(<<"table", t>>) = FrameAt(<<"table", u>>)
      BY FrameAtForm
    <3>2. <<"table", t>> \in Uses /\ <<"table", u>> \in Uses
      BY <2>1
    <3>3. <<"table", t>> = <<"table", u>>
      BY <1>1, <3>1, <3>2, Zenon DEF FramesNotShared
    <3> QED BY <3>3
  <2>4. \A p, q \in Pages : page_table[p] = page_table[q] /\ page_table[p] # None => p = q
    <3> SUFFICES ASSUME NEW p \in Pages, NEW q \in Pages,
                        page_table[p] = page_table[q], page_table[p] # None
                 PROVE  p = q
      OBVIOUS
    <3>1. FrameAt(<<"page", p>>) = FrameAt(<<"page", q>>)
      BY FrameAtForm
    <3>2. <<"page", p>> \in Uses /\ <<"page", q>> \in Uses
      BY <2>2
    <3>3. <<"page", p>> = <<"page", q>>
      BY <1>1, <3>1, <3>2, Zenon DEF FramesNotShared
    <3> QED BY <3>3
  <2>5. \A t \in Tables, p \in Pages : tables[t] # None => tables[t] # page_table[p]
    <3> SUFFICES ASSUME NEW t \in Tables, NEW p \in Pages, tables[t] # None,
                        tables[t] = page_table[p]
                 PROVE  FALSE
      OBVIOUS
    <3>1. page_table[p] # None
      OBVIOUS
    <3>2. FrameAt(<<"table", t>>) = FrameAt(<<"page", p>>)
      BY FrameAtForm
    <3>3. <<"table", t>> \in Uses /\ <<"page", p>> \in Uses
      BY <2>1, <2>2, <3>1
    <3>4. <<"table", t>> = <<"page", p>>
      BY <1>1, <3>2, <3>3, Zenon DEF FramesNotShared
    <3> QED BY <3>4
  <2> QED BY <2>3, <2>4, <2>5 DEF Distinct
<1>2. ASSUME Distinct(tables, page_table) PROVE FramesNotShared
  <2> SUFFICES ASSUME NEW u \in Uses, NEW v \in Uses, FrameAt(u) = FrameAt(v)
               PROVE  u = v
    BY DEF FramesNotShared
  <2>1. \/ \E t \in Tables : tables[t] # None /\ u = <<"table", t>>
        \/ \E p \in Pages : page_table[p] # None /\ u = <<"page", p>>
    BY DEF Uses
  <2>2. \/ \E t \in Tables : tables[t] # None /\ v = <<"table", t>>
        \/ \E p \in Pages : page_table[p] # None /\ v = <<"page", p>>
    BY DEF Uses
  <2> QED BY <1>2, <2>1, <2>2, FrameAtForm DEF Distinct
<1> QED BY <1>1, <1>2

LEMMA LeakForm ==
  next \in Nat /\ next <= Len(Usable_frames) =>
    ({FrameAt(u) : u \in Uses} = {Nth(n) : n \in 0 .. next - 1}
       <=> Taken(tables, page_table, next))
<1> SUFFICES ASSUME next \in Nat, next <= Len(Usable_frames)
             PROVE  {FrameAt(u) : u \in Uses} = {Nth(n) : n \in 0 .. next - 1}
                      <=> Taken(tables, page_table, next)
  OBVIOUS
<1>1. \A n \in 0 .. next - 1 : Nth(n) # None
  <2>1. Len(Usable_frames) \in Nat
    BY MemoryMapAssumption
  <2> QED BY <2>1, NthProperties
<1>2. {FrameAt(u) : u \in Uses} =
         {tables[t] : t \in {t \in Tables : tables[t] # None}}
           \cup {page_table[p] : p \in {p \in Pages : page_table[p] # None}}
  <2>1. ASSUME NEW u \in Uses
        PROVE  \/ \E t \in Tables : tables[t] # None /\ FrameAt(u) = tables[t]
               \/ \E p \in Pages : page_table[p] # None /\ FrameAt(u) = page_table[p]
    <3>1. \/ \E t \in Tables : tables[t] # None /\ u = <<"table", t>>
          \/ \E p \in Pages : page_table[p] # None /\ u = <<"page", p>>
      BY DEF Uses
    <3> QED BY <3>1, FrameAtForm
  <2>2. \A t \in Tables : tables[t] # None => \E u \in Uses : FrameAt(u) = tables[t]
    BY FrameAtForm DEF Uses
  <2>3. \A p \in Pages : page_table[p] # None => \E u \in Uses : FrameAt(u) = page_table[p]
    BY FrameAtForm DEF Uses
  <2> QED BY <2>1, <2>2, <2>3
<1> DEFINE frames == {tables[t] : t \in {t \in Tables : tables[t] # None}}
                       \cup {page_table[p] : p \in {p \in Pages : page_table[p] # None}}
           taken == {Nth(n) : n \in 0 .. next - 1}
<1>3. frames \subseteq taken <=>
        /\ \A t \in Tables : tables[t] # None => \E k \in 0 .. next - 1 : tables[t] = Nth(k)
        /\ \A p \in Pages : page_table[p] # None =>
             \E k \in 0 .. next - 1 : page_table[p] = Nth(k)
  OBVIOUS
<1>4. taken \subseteq frames <=>
        \A k \in 0 .. next - 1 : (\E t \in Tables : tables[t] = Nth(k))
                                \/ (\E p \in Pages : page_table[p] = Nth(k))
  BY <1>1
<1> QED BY <1>2, <1>3, <1>4 DEF Taken

-----------------------------------------------------------------------------
(***************************************************************************)
(* Initial states and steps.                                               *)
(***************************************************************************)
LEMMA InitMemory == Init => MemoryInv
<1> SUFFICES ASSUME Init PROVE MemoryInv
  OBVIOUS
<1>1. TypeOK
  <2>1. tables \in [Tables -> Frames \cup {None}] /\ page_table \in [Pages -> Frames \cup {None}]
    BY Zenon DEF Init
  <2>2. todo \in Seq(Pages)
    BY EmptySeq DEF Init
  <2>3. cr2 \in Pages \cup {None} /\ stacks \subseteq Pages
    BY Zenon DEF Init
  <2> QED BY <2>1, <2>2, <2>3 DEF Init, TypeOK
<1>2. Uses = {}
  BY DEF Init, Uses
<1>3. FramesNotShared /\ NoFrameLeaked
  BY <1>2 DEF Init, FramesNotShared, NoFrameLeaked
<1>4. FramesSuffice
  BY MemoryMapAssumption DEF Init, FramesSuffice
<1> QED
  BY <1>1, <1>3, <1>4 DEF Init, MemoryInv, SetUp, FaultIsReal, StacksMapped,
     PanicOnlyWhenExhausted, StacksNeverFault

\* The actions that leave the allocator and the tables alone keep every frame
\* where it is.
LEMMA FramesUntouched ==
  ASSUME FramesNotShared, NoFrameLeaked, pc # "panic",
         UNCHANGED <<next, tables, page_table>>
  PROVE  FramesNotShared' /\ NoFrameLeaked'
<1>1. Uses' = Uses /\ \A u : FrameAt(u)' = FrameAt(u)
  BY DEF Uses, FrameAt
<1> QED BY <1>1 DEF FramesNotShared, NoFrameLeaked

\* A write of some heap pages by kernel_main, when nothing is left of the
\* last one, and every page of a new stack is among them.
LEMMA WriteStep ==
  ASSUME MemoryInv, NEW pages \in Seq(Pages), Write(pages),
         pc \in {"init_heap", "run"},
         stacks' \subseteq Pages,
         \A s \in stacks' \ stacks : \A p \in Stack(s) :
           p \in Pages /\ \E i \in DOMAIN pages : pages[i] = p
  PROVE  MemoryInv'
<1>1. TypeOK'
  BY DEF MemoryInv, TypeOK, Write, allocVars, tableVars
<1>2. FramesNotShared' /\ NoFrameLeaked'
  BY FramesUntouched DEF MemoryInv, Write, allocVars, tableVars
<1>3. FramesSuffice' /\ SetUp' /\ FaultIsReal' /\ PanicOnlyWhenExhausted' /\ StacksNeverFault'
  BY DEF MemoryInv, Write, allocVars, tableVars, FramesSuffice, SetUp, FaultIsReal,
     PanicOnlyWhenExhausted, StacksNeverFault
<1>4. StacksMapped'
  <2>1. todo = << >> /\ \A i \in DOMAIN todo : FALSE
    BY DEF MemoryInv, SetUp, StacksMapped
  <2>2. \A s \in stacks : \A p \in Stack(s) : p \in Pages /\ page_table[p] # None
    BY <2>1 DEF MemoryInv, StacksMapped
  <2> QED BY <2>2 DEF Write, allocVars, tableVars, StacksMapped, Stack
<1> QED BY <1>1, <1>2, <1>3, <1>4 DEF MemoryInv

LEMMA SpawnStep ==
  ASSUME MemoryInv, NEW p \in Touched, Spawn(p)
  PROVE  MemoryInv'
<1>1. p \in Nat /\ StackPages \in Nat \ {0} /\ HeapPages \in Nat /\ p \in Pages
      /\ p + StackPages <= HeapPages
  BY HeapAssumption DEF Pages, Spawn, Fits
<1>2. \A i \in 1 .. StackPages : p + i - 1 \in Pages
  BY <1>1 DEF Pages
<1>3. Zeroed(p) \in Seq(Pages) /\ DOMAIN Zeroed(p) = 1 .. StackPages
      /\ \A i \in 1 .. StackPages : Zeroed(p)[i] = p + i - 1
  BY <1>1, <1>2 DEF Zeroed
<1>4. ASSUME NEW q \in Stack(p)
      PROVE  q \in Pages /\ \E i \in DOMAIN Zeroed(p) : Zeroed(p)[i] = q
  <2>1. q - p + 1 \in 1 .. StackPages /\ q = p + (q - p + 1) - 1
    BY <1>1 DEF Stack
  <2> QED BY <1>2, <1>3, <2>1
<1>5. stacks' \subseteq Pages /\ \A s \in stacks' \ stacks : s = p
  BY <1>1 DEF Spawn, MemoryInv, TypeOK
<1>6. Write(Zeroed(p)) /\ pc \in {"init_heap", "run"}
  BY DEF Spawn
<1> QED BY <1>3, <1>4, <1>5, <1>6, WriteStep

LEMMA HandlerStep ==
  ASSUME MemoryInv, Page_fault_handler
  PROVE  MemoryInv'
<1> DEFINE p == cr2
           N == Len(Missing(p))
           L == Len(Usable_frames)
<1>1. /\ p \in Pages /\ page_table[p] = None /\ mapper /\ frame_allocator
      /\ next \in Nat /\ next <= L /\ L \in Nat
  BY MemoryMapAssumption
     DEF MemoryInv, Page_fault_handler, FaultIsReal, SetUp, FramesSuffice, TypeOK
<1>2. /\ Missing(p) \in Seq(Tables) /\ N \in Nat /\ DOMAIN Missing(p) = 1 .. N
      /\ \A k \in 1 .. N : tables[Missing(p)[k]] = None
      /\ \A j, k \in 1 .. N : Missing(p)[j] = Missing(p)[k] => j = k
  BY <1>1, MissingProperties
<1>3. Handled(p) <=> next + 1 + N <= L
  BY <1>1 DEF Handled, InHeap, Enough
<1>4. /\ next' = next + Calls(p)
      /\ tables' = IF Nth(next) = None THEN tables ELSE Map_to(p)
      /\ UNCHANGED <<mapper, frame_allocator, mapper_lock, todo, cr2, stacks>>
  BY <1>1 DEF Page_fault_handler, InHeap
<1>5. next' = IF next + 1 + N <= L THEN next + 1 + N ELSE L + 1
  BY <1>1, <1>2, <1>4 DEF Calls
<1>6. tables' \in [Tables -> Frames \cup {None}]
      /\ \A t \in Tables :
           \/ tables'[t] = tables[t]
           \/ tables[t] = None /\ \E k \in 1 .. N :
                Missing(p)[k] = t /\ tables'[t] = Nth(next + k)
  BY <1>1, <1>2, <1>4, MapToProperties DEF MemoryInv, TypeOK
<1>7. Distinct(tables, page_table) /\ Taken(tables, page_table, next)
  <2>1. pc # "panic"
    BY DEF Page_fault_handler
  <2> QED BY <1>1, <2>1, SharedForm, LeakForm DEF MemoryInv, NoFrameLeaked
<1>8. ASSUME NEW t \in Tables, tables'[t] # None
      PROVE  \/ tables'[t] = tables[t]
                /\ \E k \in 0 .. next - 1 : tables'[t] = Nth(k)
             \/ \E k \in 1 .. N : Missing(p)[k] = t /\ tables'[t] = Nth(next + k)
  BY <1>6, <1>7, <1>8 DEF Taken
<1>9. /\ page_table' \in [Pages -> Frames \cup {None}]
      /\ \A q \in Pages : \/ page_table'[q] = page_table[q]
                          \/ q = p /\ page_table'[q] = Nth(next)
  BY <1>1, NthProperties DEF Page_fault_handler, MemoryInv, TypeOK
<1>10. ASSUME NEW q \in Pages, page_table'[q] # None
       PROVE  \/ page_table'[q] = page_table[q]
                 /\ \E k \in 0 .. next - 1 : page_table'[q] = Nth(k)
              \/ q = p /\ page_table'[q] = Nth(next)
  BY <1>7, <1>9, <1>10 DEF Taken
<1> HIDE DEF p, N, L
<1>11. FramesNotShared'
  <2>1. \A t, u \in Tables : tables'[t] = tables'[u] /\ tables'[t] # None => t = u
    <3> SUFFICES ASSUME NEW t \in Tables, NEW u \in Tables,
                        tables'[t] = tables'[u], tables'[t] # None
                 PROVE  t = u
      OBVIOUS
    <3>1. CASE tables'[t] = tables[t] /\ tables'[u] = tables[u]
      BY <3>1, <1>7 DEF Distinct
    <3>2. CASE \E j, k \in 1 .. N : /\ Missing(p)[j] = t /\ tables'[t] = Nth(next + j)
                                    /\ Missing(p)[k] = u /\ tables'[u] = Nth(next + k)
      <4>1. PICK j \in 1 .. N, k \in 1 .. N :
                 /\ Missing(p)[j] = t /\ tables'[t] = Nth(next + j)
                 /\ Missing(p)[k] = u /\ tables'[u] = Nth(next + k)
        BY <3>2
      <4>2. next + j \in Nat /\ next + k \in Nat
        BY <1>1, <1>2
      <4>3. next + j = next + k
        BY <4>1, <4>2, NthProperties
      <4> QED BY <4>1, <4>3, <1>1
    <3>3. ASSUME NEW j \in 0 .. next - 1, NEW k \in 1 .. N, Nth(j) = Nth(next + k),
                 Nth(j) # None
          PROVE  FALSE
      <4>1. j \in Nat /\ next + k \in Nat
        BY <1>1, <1>2
      <4>2. j = next + k
        BY <3>3, <4>1, NthProperties
      <4> QED BY <4>2, <1>1, <1>2
    <3> QED BY <1>8, <3>1, <3>2, <3>3
  <2>2. \A q, r \in Pages :
           page_table'[q] = page_table'[r] /\ page_table'[q] # None => q = r
    <3> SUFFICES ASSUME NEW q \in Pages, NEW r \in Pages,
                        page_table'[q] = page_table'[r], page_table'[q] # None
                 PROVE  q = r
      OBVIOUS
    <3>1. CASE page_table'[q] = page_table[q] /\ page_table'[r] = page_table[r]
      BY <3>1, <1>7 DEF Distinct
    <3>2. ASSUME NEW j \in 0 .. next - 1, Nth(j) = Nth(next), Nth(j) # None
          PROVE  FALSE
      <4>1. j \in Nat /\ j = next
        BY <3>2, <1>1, NthProperties
      <4> QED BY <4>1, <1>1
    <3> QED BY <1>10, <3>1, <3>2
  <2>3. \A t \in Tables, q \in Pages : tables'[t] # None => tables'[t] # page_table'[q]
    <3> SUFFICES ASSUME NEW t \in Tables, NEW q \in Pages,
                        tables'[t] = page_table'[q], tables'[t] # None
                 PROVE  FALSE
      OBVIOUS
    <3>1. CASE tables'[t] = tables[t] /\ page_table'[q] = page_table[q]
      BY <3>1, <1>7 DEF Distinct
    <3>2. ASSUME NEW j \in 0 .. next - 1, NEW k \in 0 .. N, Nth(j) = Nth(next + k),
                 Nth(j) # None
          PROVE  FALSE
      <4>1. j \in Nat /\ next + k \in Nat
        BY <1>1, <1>2
      <4>2. j = next + k
        BY <3>2, <4>1, NthProperties
      <4> QED BY <4>2, <1>1, <1>2
    <3>3. ASSUME NEW k \in 1 .. N, Nth(next) = Nth(next + k), Nth(next) # None
          PROVE  FALSE
      <4>1. next + k \in Nat
        BY <1>1, <1>2
      <4>2. next = next + k
        BY <3>3, <4>1, <1>1, NthProperties
      <4> QED BY <4>2, <1>1, <1>2
    <3>4. 0 \in 0 .. N /\ next + 0 = next /\ 1 .. N \subseteq 0 .. N
      BY <1>1, <1>2
    <3> QED BY <1>8, <1>10, <3>1, <3>2, <3>3, <3>4
  <2>4. Distinct(tables', page_table')
    BY <2>1, <2>2, <2>3 DEF Distinct
  <2>5. (FramesNotShared <=> Distinct(tables, page_table))'
    BY SharedForm, PTL
  <2> QED BY <2>4, <2>5 DEF Distinct
<1>12. TypeOK'
  <2>1. next' \in Nat /\ pc' \in {"access", "panic"}
    BY <1>1, <1>2, <1>5 DEF Page_fault_handler
  <2> QED BY <1>4, <1>6, <1>9, <2>1 DEF MemoryInv, TypeOK
<1>13. StacksMapped'
  <2>1. \A q \in Pages : page_table[q] # None => page_table'[q] # None
    BY <1>9, <1>1
  <2>2. pc' \notin {"run", "translate"}
    BY DEF Page_fault_handler
  <2> QED BY <1>4, <2>1, <2>2 DEF MemoryInv, StacksMapped, Stack
<1>14. SetUp' /\ FaultIsReal' /\ StacksNeverFault'
  BY <1>4, <1>1 DEF Page_fault_handler, SetUp, FaultIsReal, StacksNeverFault
<1>15. CASE next + 1 + N <= L
  <2>1. pc' = "access" /\ next' = next + 1 + N
        /\ page_table' = [page_table EXCEPT ![p] = Nth(next)]
    BY <1>3, <1>5, <1>15 DEF Page_fault_handler, p
  <2>2. FramesSuffice' /\ PanicOnlyWhenExhausted'
    BY <2>1, <1>15 DEF FramesSuffice, PanicOnlyWhenExhausted, L
  <2>3. Taken(tables', page_table', next')
    <3>1. Nth(next) # None /\ tables' = Map_to(p)
      BY <1>1, <1>2, <1>4, <1>15, NthProperties DEF L, p
    <3>2. ASSUME NEW k \in 0 .. next' - 1
          PROVE  (\E t \in Tables : tables'[t] = Nth(k))
                   \/ (\E q \in Pages : page_table'[q] = Nth(k))
      <4>1. CASE k < next
        <5>1. k \in 0 .. next - 1 /\ k < L
          BY <1>1, <2>1, <4>1
        <5>2. Nth(k) # None
          BY <1>1, <5>1, NthProperties DEF L
        <5>3. CASE \E t \in Tables : tables[t] = Nth(k)
          <6>1. PICK t \in Tables : tables[t] = Nth(k)
            BY <5>3
          <6>2. tables'[t] = tables[t]
            BY <1>6, <5>2, <6>1
          <6> QED BY <6>1, <6>2
        <5>4. CASE \E q \in Pages : page_table[q] = Nth(k)
          <6>1. PICK q \in Pages : page_table[q] = Nth(k)
            BY <5>4
          <6>2. q # p
            BY <5>2, <6>1, <1>1
          <6>3. page_table'[q] = page_table[q]
            BY <6>2, <1>9
          <6> QED BY <6>1, <6>3
        <5> QED BY <5>1, <5>3, <5>4, <1>7 DEF Taken
      <4>2. CASE k = next
        BY <4>2, <2>1, <1>1 DEF MemoryInv, TypeOK
      <4>3. CASE k > next
        <5>1. k - next \in 1 .. N /\ k = next + (k - next)
          BY <1>1, <1>2, <2>1, <4>3
        <5> DEFINE i == k - next
                   t == Missing(p)[i]
        <5>2. t \in Tables
          BY <1>2, <5>1
        <5>3. i \in DOMAIN Missing(p) /\ t = Missing(p)[i]
          BY <1>2, <5>1
        <5>4. \E j \in 1 .. N : Missing(p)[j] = t /\ tables'[t] = Nth(next + j)
          BY <5>2, <5>3, <3>1, <1>1, <1>2, MapToProperties DEF MemoryInv
        <5>5. tables'[t] = Nth(next + i)
          BY <5>1, <5>4, <1>2
        <5> QED BY <5>1, <5>2, <5>5
      <4> QED BY <4>1, <4>2, <4>3, <1>1, <2>1, <1>2
    <3>3. ASSUME NEW t \in Tables, tables'[t] # None
          PROVE  \E k \in 0 .. next' - 1 : tables'[t] = Nth(k)
      <4>1. \A k \in 0 .. next - 1 : k \in 0 .. next' - 1
        BY <1>1, <1>2, <2>1
      <4>2. \A k \in 1 .. N : next + k \in 0 .. next' - 1
        BY <1>1, <1>2, <2>1
      <4> QED BY <1>8, <3>3, <4>1, <4>2
    <3>4. ASSUME NEW q \in Pages, page_table'[q] # None
          PROVE  \E k \in 0 .. next' - 1 : page_table'[q] = Nth(k)
      <4>1. \A k \in 0 .. next : k \in 0 .. next' - 1
        BY <1>1, <1>2, <2>1
      <4>2. next \in 0 .. next /\ 0 .. next - 1 \subseteq 0 .. next
        BY <1>1
      <4> QED BY <1>10, <3>4, <4>1, <4>2
    <3> QED BY <3>2, <3>3, <3>4 DEF Taken
  <2>4. next' \in Nat /\ next' <= Len(Usable_frames)
    BY <1>1, <1>2, <2>1, <1>15 DEF L
  <2>5. (next \in Nat /\ next <= Len(Usable_frames) =>
           ({FrameAt(u) : u \in Uses} = {Nth(n) : n \in 0 .. next - 1}
              <=> Taken(tables, page_table, next)))'
    BY LeakForm, PTL
  <2>6. NoFrameLeaked'
    BY <2>3, <2>4, <2>5 DEF NoFrameLeaked, Taken
  <2> QED BY <1>11, <1>12, <1>13, <1>14, <2>2, <2>6 DEF MemoryInv
<1>16. CASE ~(next + 1 + N <= L)
  <2>1. pc' = "panic" /\ next' = L + 1
    BY <1>3, <1>5, <1>16 DEF Page_fault_handler, p
  <2>2. FramesSuffice' /\ PanicOnlyWhenExhausted' /\ NoFrameLeaked'
    BY <2>1, <1>1 DEF FramesSuffice, PanicOnlyWhenExhausted, NoFrameLeaked, L
  <2> QED BY <1>11, <1>12, <1>13, <1>14, <2>2 DEF MemoryInv
<1> QED BY <1>15, <1>16

\* Every step keeps the invariant.
LEMMA StepMemory == MemoryInv /\ [Next]_vars => MemoryInv'
<1> SUFFICES ASSUME MemoryInv, [Next]_vars PROVE MemoryInv'
  OBVIOUS
<1>1. ASSUME UNCHANGED <<next, tables, page_table>>, pc # "panic", pc' # "panic"
      PROVE  /\ FramesNotShared' /\ NoFrameLeaked'
             /\ FramesSuffice' /\ PanicOnlyWhenExhausted'
  BY <1>1, FramesUntouched DEF MemoryInv, FramesSuffice, PanicOnlyWhenExhausted
<1>2. CASE Init_global_memory
  <2>1. UNCHANGED <<next, tables, page_table, todo, stacks>>
    BY <1>2 DEF Init_global_memory, MemoryInv, SetUp, tableVars
  <2>2. TypeOK'
    BY <1>2, <2>1 DEF Init_global_memory, MemoryInv, TypeOK, tableVars
  <2>3. SetUp' /\ FaultIsReal' /\ StacksMapped' /\ StacksNeverFault'
    BY <1>2, <2>1 DEF Init_global_memory, MemoryInv, SetUp, FaultIsReal, StacksMapped,
       StacksNeverFault, Stack
  <2> QED BY <1>1, <1>2, <2>1, <2>2, <2>3 DEF Init_global_memory, MemoryInv
<1>3. CASE Init_heap
  <2>1. 0 \in Pages /\ <<0>> \in Seq(Pages)
    BY HeapAssumption DEF Pages
  <2>2. Write(<<0>>) /\ stacks' = stacks /\ pc = "init_heap" /\ stacks \subseteq Pages
    BY <1>3 DEF Init_heap, At_init_heap, MemoryInv, TypeOK
  <2>3. \A s \in stacks' \ stacks : FALSE
    BY <2>2
  <2> QED BY <2>1, <2>2, <2>3, WriteStep
<1>4. ASSUME NEW p \in Touched, Use_heap(p) PROVE MemoryInv'
  <2>1. p \in Pages /\ <<p>> \in Seq(Pages)
    BY HeapAssumption
  <2>2. Write(<<p>>) /\ stacks' = stacks /\ pc = "run" /\ stacks \subseteq Pages
    BY <1>4 DEF Use_heap, MemoryInv, TypeOK
  <2>3. \A s \in stacks' \ stacks : FALSE
    BY <2>2
  <2> QED BY <2>1, <2>2, <2>3, WriteStep
<1>5. ASSUME NEW p \in Touched, Spawn(p) PROVE MemoryInv'
  BY <1>5, SpawnStep
<1>6. CASE Access
  <2>1. /\ todo \in Seq(Pages) /\ todo # << >> /\ Len(todo) \in Nat /\ Len(todo) > 0
        /\ todo' \in Seq(Pages) /\ Len(todo') = Len(todo) - 1
        /\ \A i \in 1 .. Len(todo) - 1 : todo'[i] = todo[i + 1]
        /\ DOMAIN todo = 1 .. Len(todo) /\ DOMAIN todo' = 1 .. Len(todo')
        /\ page_table[todo[1]] # None
    BY <1>6 DEF Access, MemoryInv, TypeOK
  <2>2. TypeOK'
    BY <1>6, <2>1 DEF Access, MemoryInv, TypeOK, allocVars, tableVars
  <2>3. SetUp' /\ FaultIsReal' /\ StacksNeverFault'
    BY <1>6 DEF Access, MemoryInv, SetUp, FaultIsReal, StacksNeverFault, allocVars, tableVars
  <2>4. StacksMapped'
    <3>1. pc' \in {"run", "translate"} => todo' = << >>
      BY <1>6, <2>1, EmptySeq DEF Access
    <3>2. ASSUME NEW s \in stacks, NEW p \in Stack(s)
          PROVE  p \in Pages /\ (page_table[p] # None \/ \E i \in DOMAIN todo' : todo'[i] = p)
      <4>1. p \in Pages /\ (page_table[p] # None \/ \E i \in DOMAIN todo : todo[i] = p)
        BY DEF MemoryInv, StacksMapped
      <4>2. ASSUME NEW i \in DOMAIN todo, todo[i] = p, page_table[p] = None
            PROVE  \E j \in DOMAIN todo' : todo'[j] = p
        <5>1. i # 1
          BY <2>1, <4>2
        <5>2. i - 1 \in 1 .. Len(todo) - 1 /\ (i - 1) + 1 = i
          BY <2>1, <5>1
        <5>3. todo'[i - 1] = p /\ i - 1 \in DOMAIN todo'
          BY <2>1, <4>2, <5>2
        <5> QED BY <5>3
      <4> QED BY <4>1, <4>2
    <3> QED BY <1>6, <3>1, <3>2 DEF Access, StacksMapped, Stack, allocVars, tableVars
  <2>5. UNCHANGED <<next, tables, page_table>> /\ pc # "panic" /\ pc' # "panic"
    BY <1>6 DEF Access, allocVars, tableVars
  <2> QED BY <1>1, <2>2, <2>3, <2>4, <2>5 DEF MemoryInv
<1>7. CASE Fault
  <2>1. Head(todo) \in Pages
    BY <1>7 DEF Fault, MemoryInv, TypeOK
  <2>2. TypeOK'
    BY <1>7, <2>1 DEF Fault, MemoryInv, TypeOK, allocVars, tableVars
  <2>3. SetUp' /\ FaultIsReal' /\ StacksMapped' /\ StacksNeverFault'
    BY <1>7, <2>1 DEF Fault, MemoryInv, SetUp, FaultIsReal, StacksMapped, StacksNeverFault,
       Stack, allocVars, tableVars
  <2>4. UNCHANGED <<next, tables, page_table>> /\ pc # "panic" /\ pc' # "panic"
    BY <1>7 DEF Fault, allocVars, tableVars
  <2> QED BY <1>1, <2>2, <2>3, <2>4 DEF MemoryInv
<1>8. CASE Page_fault_handler
  BY <1>8, HandlerStep
<1>9. CASE Lock_mapper \/ Unlock_mapper
  <2>1. TypeOK'
    BY <1>9 DEF Lock_mapper, Unlock_mapper, Guard_alive, MemoryInv, TypeOK, allocVars, tableVars
  <2>2. SetUp' /\ FaultIsReal' /\ StacksMapped' /\ StacksNeverFault'
    BY <1>9 DEF Lock_mapper, Unlock_mapper, MemoryInv, SetUp, FaultIsReal, StacksMapped,
       StacksNeverFault, Stack, allocVars, tableVars
  <2>3. UNCHANGED <<next, tables, page_table>> /\ pc # "panic" /\ pc' # "panic"
    BY <1>9 DEF Lock_mapper, Unlock_mapper, allocVars, tableVars
  <2> QED BY <1>1, <2>1, <2>2, <2>3 DEF MemoryInv
<1>10. ASSUME NEW s \in stacks, NEW p \in Stack(s), Push(s, p) PROVE MemoryInv'
  <2>1. page_table[p] # None
    BY <1>10 DEF Push, MemoryInv, StacksMapped
  <2>2. UNCHANGED vars
    BY <1>10, <2>1 DEF Push, vars, allocVars, tableVars
  <2>3. FramesNotShared' /\ NoFrameLeaked' /\ FramesSuffice' /\ PanicOnlyWhenExhausted'
    BY <1>1, <1>10, <2>2 DEF Push, vars, allocVars, tableVars
  <2> QED BY <2>2, <2>3 DEF MemoryInv, TypeOK, SetUp, FaultIsReal, StacksMapped,
             StacksNeverFault, Stack, vars, allocVars, tableVars
<1>11. CASE UNCHANGED vars
  <2>1. Uses' = Uses /\ \A u : FrameAt(u)' = FrameAt(u)
    BY <1>11 DEF Uses, FrameAt, vars, allocVars, tableVars
  <2>2. FramesNotShared' /\ NoFrameLeaked'
    BY <1>11, <2>1 DEF MemoryInv, FramesNotShared, NoFrameLeaked, vars, allocVars, tableVars
  <2> QED BY <1>11, <2>2 DEF MemoryInv, TypeOK, SetUp, FaultIsReal, StacksMapped, FramesSuffice,
             PanicOnlyWhenExhausted, StacksNeverFault, Stack, vars, allocVars, tableVars
<1> QED BY <1>2, <1>3, <1>4, <1>5, <1>6, <1>7, <1>8, <1>9, <1>10, <1>11 DEF Next, Step

-----------------------------------------------------------------------------
(***************************************************************************)
(* The theorems.                                                           *)
(***************************************************************************)

\* The inductive invariant of demand paging.
THEOREM MemoryIsInvariant == Spec => []MemoryInv
BY InitMemory, StepMemory, PTL DEF Spec

\* The mapper, the allocator and the page tables are well formed.
THEOREM MemoryTypeOK == Spec => []TypeOK
<1>1. MemoryInv => TypeOK
  BY DEF MemoryInv
<1> QED BY <1>1, MemoryIsInvariant, PTL

\* The frames page_fault_handler takes for a page and map_to takes for its
\* tables are never in use already.
THEOREM MemoryFramesNotShared == Spec => []FramesNotShared
<1>1. MemoryInv => FramesNotShared
  BY DEF MemoryInv
<1> QED BY <1>1, MemoryIsInvariant, PTL

\* A fault that is repaired uses every frame it took from the allocator.
THEOREM MemoryNoFrameLeaked == Spec => []NoFrameLeaked
<1>1. MemoryInv => NoFrameLeaked
  BY DEF MemoryInv
<1> QED BY <1>1, MemoryIsInvariant, PTL

\* page_fault_handler panics on a heap access of kernel_main for one reason,
\* that allocate_frame has returned None.
THEOREM MemoryPanicOnlyWhenExhausted == Spec => []PanicOnlyWhenExhausted
<1>1. MemoryInv => PanicOnlyWhenExhausted
  BY DEF MemoryInv
<1> QED BY <1>1, MemoryIsInvariant, PTL

\* Zeroing the stack in Scheduler::spawn maps all of it, so that no push on
\* the stack of a process faults.
THEOREM MemoryStacksNeverFault == Spec => []StacksNeverFault
<1>1. MemoryInv => StacksNeverFault
  BY DEF MemoryInv
<1> QED BY <1>1, MemoryIsInvariant, PTL

\* A page table or a heap page that has a frame keeps it: map_to fills only
\* entries that are unused, also in the fault that runs out of frames, so that
\* no translation the CPU has cached becomes stale.
MappingsKept ==
  [][ /\ \A t \in Tables : tables[t] # None => tables'[t] = tables[t]
      /\ \A p \in Pages : page_table[p] # None => page_table'[p] = page_table[p] ]_vars

\* No step moves a page table or a page to another frame.
THEOREM MemoryMappingsKept == Spec => MappingsKept
<1> DEFINE Kept == /\ \A t \in Tables : tables[t] # None => tables'[t] = tables[t]
                   /\ \A p \in Pages : page_table[p] # None => page_table'[p] = page_table[p]
<1>1. ASSUME MemoryInv, [Next]_vars PROVE Kept \/ UNCHANGED vars
  <2>1. CASE Page_fault_handler
    <3>1. cr2 \in Pages /\ page_table[cr2] = None
      BY <1>1, <2>1 DEF Page_fault_handler, MemoryInv, FaultIsReal
    <3>2. \A p \in Pages : page_table[p] # None => page_table'[p] = page_table[p]
      BY <1>1, <2>1, <3>1 DEF Page_fault_handler, MemoryInv, TypeOK
    <3>3. tables' = tables \/ tables' = Map_to(cr2)
      BY <2>1 DEF Page_fault_handler
    <3>4. \A k \in DOMAIN Missing(cr2) : tables[Missing(cr2)[k]] = None
      BY <3>1, MissingProperties
    <3>5. \A t \in Tables : tables[t] # None => Map_to(cr2)[t] = tables[t]
      BY <1>1, <3>1, <3>4, MapToProperties DEF MemoryInv
    <3> QED BY <3>2, <3>3, <3>5
  <2>2. CASE UNCHANGED <<tables, page_table>>
    BY <2>2
  <2>3. CASE ~Page_fault_handler
    <3>1. UNCHANGED <<tables, page_table>>
      BY <1>1, <2>3 DEF Next, Step, Init_global_memory, Init_heap, Access, Fault, Lock_mapper,
         Unlock_mapper, Use_heap, Spawn, Write, Push, vars, tableVars
    <3> QED BY <2>2, <3>1
  <2> QED BY <2>1, <2>3
<1>2. MemoryInv /\ [Next]_vars => [Kept]_vars
  BY <1>1
<1> HIDE DEF Kept
<1>3. Spec => [][Kept]_vars
  BY <1>2, MemoryIsInvariant, PTL DEF Spec
<1> QED BY <1>3 DEF Kept, MappingsKept
=============================================================================
