----------------------------- MODULE BootProofs -----------------------------
(***************************************************************************)
(* The boot never deadlocks on a mutex and takes no interrupt, exception   *)
(* or heap access before its handler is in place.  kernel_main is walked   *)
(* once, routine by routine, with the state in which each instruction is   *)
(* executed; what an interrupt or a fault may do at any of them then       *)
(* follows from that state and from the discipline of the handlers.        *)
(***************************************************************************)
EXTENDS Boot, SequenceTheorems, TLAPS

\* What a routine of kernel_main is made of.
Ops    == {"lgdt", "lidt", "remap", "sti", "cli", "popf", "lock", "unlock", "fill", "touch", "int"}
Args   == Mutexes \cup {"GDT", "IDT", "IF", "breakpoint", "header", "list", "stack1", "stack2",
                       "stack3", "hole1", "hole2", "hole3", "hole4", "processes", "imr"}
Instrs == Ops \X Args

\* The machine as kernel_main sees it when no handler is active.
States ==
  [held : SUBSET Mutexes, ifl : BOOLEAN, saved : BOOLEAN, cs : {"loader", "kernel"},
   idt : {"none", "loader", "kernel"}, remapped : BOOLEAN, ready : SUBSET Args]

Statics == {"MAPPER", "FRAME_ALLOCATOR"}

\* All mutexes of a set are below a rank.
Below(h, n) == \A m \in h : Rank[m] < n

\* The state may be interrupted, and preempt_round_robin finds its list.
Guarded(s) ==
  /\ s.ifl => s.remapped /\ s.idt = s.cs /\ Below(s.held, 5)
  /\ "processes" \in s.ready => "list" \in s.ready

\* The instruction may be executed in the state, and may fault in it.
Sound(ins, s) ==
  /\ ins[1] = "lock" => ins[2] \in Mutexes /\ Below(s.held, Rank[ins[2]])
  /\ ins[1] = "touch" => /\ s.idt = s.cs /\ Statics \subseteq s.ready /\ Below(s.held, 3)
                         /\ ins[2] # "processes"
  /\ ins[1] = "int" => ins[2] = "breakpoint" /\ s.idt = s.cs /\ Below(s.held, 5)

\* What an instruction of kernel_main leaves when its handlers have returned.
Effect(ins, s) ==
  CASE ins[1] = "lgdt"            -> [s EXCEPT !.cs = "kernel"]
    [] ins[1] = "lidt"            -> [s EXCEPT !.idt = s.cs]
    [] ins[1] = "remap"           -> [s EXCEPT !.remapped = TRUE]
    [] ins[1] = "sti"             -> [s EXCEPT !.ifl = TRUE]
    [] ins[1] = "cli"             -> [s EXCEPT !.ifl = FALSE, !.saved = s.ifl]
    [] ins[1] = "popf"            -> [s EXCEPT !.ifl = s.saved]
    [] ins[1] = "lock"            -> [s EXCEPT !.held = @ \cup {ins[2]}]
    [] ins[1] = "unlock"          -> [s EXCEPT !.held = @ \ {ins[2]}]
    [] ins[1] \in {"fill", "touch"} -> [s EXCEPT !.ready = @ \cup {ins[2]}]
    [] OTHER                      -> s

\* f gives the state at every instruction of code, and after the last.
Walk(code, f) ==
  /\ code \in Seq(Instrs)
  /\ f \in [1 .. Len(code) + 1 -> States]
  /\ \A i \in 1 .. Len(code) + 1 : Guarded(f[i])
  /\ \A i \in 1 .. Len(code) : Sound(code[i], f[i]) /\ f[i + 1] = Effect(code[i], f[i])

\* The code goes from s to t, and may be interrupted and fault on the way.
Safe(code, s, t) == \E f : Walk(code, f) /\ f[1] = s /\ f[Len(code) + 1] = t

-----------------------------------------------------------------------------
\* Code that does nothing is safe.
LEMMA Nothing ==
  ASSUME NEW s \in States, Guarded(s)
  PROVE  Safe(<< >>, s, s)
<1> DEFINE f == [i \in 1 .. 1 |-> s]
<1>1. << >> \in Seq(Instrs) /\ Len(<< >>) = 0
  BY EmptySeq
<1>2. f \in [1 .. 1 -> States] /\ f[1] = s
  OBVIOUS
<1>3. f[Len(<< >>) + 1] = s
  BY <1>1, <1>2
<1> HIDE DEF f
<1>4. Walk(<< >>, f)
  BY <1>1, <1>2 DEF Walk
<1> QED BY <1>1, <1>2, <1>3, <1>4, Zenon DEF Safe

\* An instruction that is sound where it is executed is safe.
LEMMA Single ==
  ASSUME NEW ins \in Instrs, NEW s \in States, NEW t \in States, t = Effect(ins, s),
         Guarded(s), Sound(ins, s), Guarded(t)
  PROVE  Safe(<<ins>>, s, t)
<1> DEFINE f == [i \in 1 .. 2 |-> IF i = 1 THEN s ELSE t]
           code == <<ins>>
<1>1. code \in Seq(Instrs) /\ Len(code) = 1 /\ code[1] = ins
  OBVIOUS
<1>2. f \in [1 .. 2 -> States] /\ f[1] = s /\ f[2] = t
  OBVIOUS
<1>3. Len(code) + 1 = 2
  BY <1>1
<1> HIDE DEF f, code
<1>4. Walk(code, f)
  <2>1. \A i \in 1 .. Len(code) + 1 : Guarded(f[i])
    BY <1>2, <1>3
  <2>2. \A i \in 1 .. Len(code) : Sound(code[i], f[i]) /\ f[i + 1] = Effect(code[i], f[i])
    BY <1>1, <1>2
  <2> QED BY <1>1, <1>2, <1>3, <2>1, <2>2 DEF Walk
<1>5. Safe(code, s, t)
  BY <1>2, <1>3, <1>4, Zenon DEF Safe
<1> QED BY <1>5 DEF code

\* Safe routines may be executed one after the other.
LEMMA Sequel ==
  ASSUME NEW a, NEW b, NEW s, NEW u, NEW t, Safe(a, s, u), Safe(b, u, t)
  PROVE  Safe(a \o b, s, t)
<1>1. PICK f : Walk(a, f) /\ f[1] = s /\ f[Len(a) + 1] = u
  BY Zenon DEF Safe
<1>2. PICK g : Walk(b, g) /\ g[1] = u /\ g[Len(b) + 1] = t
  BY Zenon DEF Safe
<1> DEFINE m == Len(a)
           n == Len(b)
           c == a \o b
           h == [i \in 1 .. m + n + 1 |-> IF i <= m THEN f[i] ELSE g[i - m]]
<1>3. a \in Seq(Instrs) /\ b \in Seq(Instrs) /\ m \in Nat /\ n \in Nat
  BY <1>1, <1>2, LenProperties DEF Walk
<1>4. c \in Seq(Instrs) /\ Len(c) = Len(a) + Len(b)
  BY <1>3, ConcatProperties
<1>5. \A i \in 1 .. Len(a) + Len(b) : c[i] = IF i <= Len(a) THEN a[i] ELSE b[i - Len(a)]
  BY <1>3, ConcatProperties
<1> HIDE DEF c
<1>6. /\ f \in [1 .. m + 1 -> States] /\ \A i \in 1 .. m + 1 : Guarded(f[i])
      /\ \A i \in 1 .. m : Sound(a[i], f[i]) /\ f[i + 1] = Effect(a[i], f[i])
  BY <1>1 DEF Walk
<1>7. /\ g \in [1 .. n + 1 -> States] /\ \A i \in 1 .. n + 1 : Guarded(g[i])
      /\ \A i \in 1 .. n : Sound(b[i], g[i]) /\ g[i + 1] = Effect(b[i], g[i])
  BY <1>2 DEF Walk
<1>8. /\ \A i \in 1 .. m : h[i] = f[i] /\ c[i] = a[i]
      /\ \A i \in 1 .. n : c[m + i] = b[i]
      /\ \A i \in 1 .. n + 1 : h[m + i] = g[i]
      /\ h[m + 1] = f[m + 1]
      /\ Len(c) = m + n
  <2>1. \A i \in 1 .. m : h[i] = f[i] /\ c[i] = a[i]
    BY <1>3, <1>5
  <2>2. \A i \in 1 .. n : c[m + i] = b[i]
    BY <1>3, <1>5
  <2>3. \A i \in 1 .. n + 1 : h[m + i] = g[i]
    BY <1>3
  <2>4. h[m + 1] = f[m + 1]
    BY <1>1, <1>2, <1>3, <2>3
  <2> QED BY <1>4, <2>1, <2>2, <2>3, <2>4
<1>9. \A i \in 1 .. m + n + 1 : (i \in 1 .. m) \/ (\E j \in 1 .. n + 1 : i = m + j)
  <2> SUFFICES ASSUME NEW i \in 1 .. m + n + 1, i \notin 1 .. m PROVE i - m \in 1 .. n + 1 /\ i = m + (i - m)
    OBVIOUS
  <2> QED BY <1>3
<1>10. \A i \in 1 .. m + n : (i \in 1 .. m) \/ (\E j \in 1 .. n : i = m + j)
  <2> SUFFICES ASSUME NEW i \in 1 .. m + n, i \notin 1 .. m PROVE i - m \in 1 .. n /\ i = m + (i - m)
    OBVIOUS
  <2> QED BY <1>3
<1>11. h \in [1 .. m + n + 1 -> States]
  BY <1>3, <1>6, <1>7
<1>12. h[1] = s
  BY <1>1, <1>3, <1>8
<1>13. h[m + n + 1] = t
  BY <1>2, <1>3, <1>8
<1> HIDE DEF h
<1>14. \A i \in 1 .. m + n + 1 : Guarded(h[i])
  <2>1. \A i \in 1 .. m : Guarded(h[i])
    BY <1>3, <1>6, <1>8
  <2>2. \A i \in 1 .. n + 1 : Guarded(h[m + i])
    BY <1>7, <1>8
  <2> QED BY <1>9, <2>1, <2>2
<1>15. \A i \in 1 .. m + n : Sound(c[i], h[i]) /\ h[i + 1] = Effect(c[i], h[i])
  <2>1. ASSUME NEW i \in 1 .. m PROVE h[i + 1] = f[i + 1]
    <3>1. i + 1 \in 1 .. m \/ i + 1 = m + 1
      BY <1>3
    <3> QED BY <1>8, <3>1
  <2>2. \A i \in 1 .. m : Sound(c[i], h[i]) /\ h[i + 1] = Effect(c[i], h[i])
    BY <1>6, <1>8, <2>1
  <2>3. ASSUME NEW i \in 1 .. n PROVE h[m + i] = g[i] /\ h[m + i + 1] = g[i + 1]
    <3>1. i \in 1 .. n + 1 /\ i + 1 \in 1 .. n + 1 /\ m + i + 1 = m + (i + 1)
      BY <1>3
    <3> QED BY <1>8, <3>1
  <2>4. \A i \in 1 .. n : Sound(c[m + i], h[m + i]) /\ h[m + i + 1] = Effect(c[m + i], h[m + i])
    BY <1>7, <1>8, <2>3
  <2> QED BY <1>10, <2>2, <2>4
<1>16. Walk(c, h)
  BY <1>4, <1>8, <1>11, <1>14, <1>15 DEF Walk
<1>17. h[Len(c) + 1] = t
  BY <1>8, <1>13
<1>18. Safe(c, s, t)
  BY <1>12, <1>16, <1>17, Zenon DEF Safe
<1> QED BY <1>18 DEF c

-----------------------------------------------------------------------------
(***************************************************************************)
(* The routines of kernel_main.  From init_idt on it runs with interrupts  *)
(* on, except in _print.                                                   *)
(***************************************************************************)
Running(h, i, v, R) ==
  [held |-> h, ifl |-> i, saved |-> v, cs |-> "kernel", idt |-> "kernel", remapped |-> TRUE,
   ready |-> R]

On(h, v, R) == Running(h, TRUE, v, R)

\* The sets of statics and pages that preempt_round_robin may find.
Listed(R) == R \in SUBSET Args /\ ("processes" \in R => "list" \in R)

\* The ranks are numbers.
LEMMA Ranks ==
  /\ \A m \in Mutexes : Rank[m] \in 1 .. 5
  /\ Rank["WRITER"] = 5 /\ Rank["PICS"] = 5 /\ Rank["SCHEDULER"] = 1 /\ Rank["RTL8139"] = 1
  /\ Rank["ALLOCATOR"] = 2 /\ Rank["MAPPER"] = 3 /\ Rank["FRAME_ALLOCATOR"] = 4
BY DEF Mutexes, Rank

\* A mutex of a higher rank than all that are held is not held.
LEMMA BelowIsFree ==
  ASSUME NEW h \in SUBSET Mutexes, NEW m \in Mutexes, Below(h, Rank[m])
  PROVE  m \notin h
BY Ranks DEF Below

\* What is below a rank is below a higher one.
LEMMA BelowMore ==
  ASSUME NEW h \in SUBSET Mutexes, NEW n \in Nat, NEW k \in Nat, n <= k, Below(h, n)
  PROVE  Below(h, k)
BY Ranks DEF Below

\* The states from init_idt on are states, and may be interrupted where the
\* handlers' mutexes are free.
LEMMA RunningState ==
  ASSUME NEW h \in SUBSET Mutexes, NEW i \in BOOLEAN, NEW v \in BOOLEAN, NEW R, Listed(R),
         i => Below(h, 5)
  PROVE  Running(h, i, v, R) \in States /\ Guarded(Running(h, i, v, R))
BY DEF Running, States, Guarded, Listed

\* A lock, in the order of the ranks, of a mutex that no handler takes, or with
\* interrupts off.
LEMMA LockIsSafe ==
  ASSUME NEW h \in SUBSET Mutexes, NEW i \in BOOLEAN, NEW v \in BOOLEAN, NEW R, Listed(R),
         NEW m \in Mutexes, Below(h, Rank[m]), i => Rank[m] < 5
  PROVE  Safe(<<<<"lock", m>>>>, Running(h, i, v, R), Running(h \cup {m}, i, v, R))
<1> DEFINE ins == <<"lock", m>>
           s == Running(h, i, v, R)
           t == Running(h \cup {m}, i, v, R)
<1>1. ins \in Instrs /\ ins[1] = "lock" /\ ins[2] = m
  BY DEF Instrs, Ops, Args
<1>2. h \cup {m} \in SUBSET Mutexes /\ (i => Below(h, 5)) /\ (i => Below(h \cup {m}, 5))
  BY Ranks DEF Below
<1>3. s \in States /\ Guarded(s) /\ t \in States /\ Guarded(t)
  BY <1>2, RunningState
<1>4. s.held = h
  BY DEF Running
<1> HIDE DEF ins
<1>5. t = Effect(ins, s)
  BY <1>1 DEF Effect, Running
<1> HIDE DEF s, t
<1>6. Sound(ins, s)
  BY <1>1, <1>4 DEF Sound
<1>7. Safe(<<ins>>, s, t)
  BY <1>1, <1>3, <1>5, <1>6, Single
<1> QED BY <1>7 DEF ins, s, t

\* An unlock.
LEMMA UnlockIsSafe ==
  ASSUME NEW h \in SUBSET Mutexes, NEW i \in BOOLEAN, NEW v \in BOOLEAN, NEW R, Listed(R),
         NEW m \in Mutexes, Below(h, Rank[m]), i => Rank[m] < 5
  PROVE  Safe(<<<<"unlock", m>>>>, Running(h \cup {m}, i, v, R), Running(h, i, v, R))
<1> DEFINE ins == <<"unlock", m>>
           t == Running(h, i, v, R)
           s == Running(h \cup {m}, i, v, R)
<1>1. ins \in Instrs /\ ins[1] = "unlock" /\ ins[2] = m
  BY DEF Instrs, Ops, Args
<1>2. h \cup {m} \in SUBSET Mutexes /\ (i => Below(h, 5)) /\ (i => Below(h \cup {m}, 5))
  BY Ranks DEF Below
<1>3. s \in States /\ Guarded(s) /\ t \in States /\ Guarded(t)
  BY <1>2, RunningState
<1>4. (h \cup {m}) \ {m} = h
  BY BelowIsFree
<1> HIDE DEF ins
<1>5. t = Effect(ins, s)
  BY <1>1, <1>4 DEF Effect, Running
<1> HIDE DEF s, t
<1>6. Sound(ins, s)
  BY <1>1 DEF Sound
<1>7. Safe(<<ins>>, s, t)
  BY <1>1, <1>3, <1>5, <1>6, Single
<1> QED BY <1>7 DEF ins, s, t

\* A routine under a mutex.
LEMMA WithIsSafe ==
  ASSUME NEW h \in SUBSET Mutexes, NEW i \in BOOLEAN, NEW v \in BOOLEAN, NEW w \in BOOLEAN,
         NEW R, Listed(R), NEW Q, Listed(Q), NEW m \in Mutexes, Below(h, Rank[m]),
         i => Rank[m] < 5, NEW body,
         Safe(body, Running(h \cup {m}, i, v, R), Running(h \cup {m}, i, w, Q))
  PROVE  Safe(With(m, body), Running(h, i, v, R), Running(h, i, w, Q))
<1>1. Safe(<<<<"lock", m>>>>, Running(h, i, v, R), Running(h \cup {m}, i, v, R))
  BY LockIsSafe
<1>2. Safe(<<<<"unlock", m>>>>, Running(h \cup {m}, i, w, Q), Running(h, i, w, Q))
  BY UnlockIsSafe
<1>3. Safe(<<<<"lock", m>>>> \o body, Running(h, i, v, R), Running(h \cup {m}, i, w, Q))
  BY <1>1, Sequel
<1> QED BY <1>2, <1>3, Sequel DEF With

\* A static is given its value, or a page of the heap is accessed.
LEMMA FillsIsSafe ==
  ASSUME NEW h \in SUBSET Mutexes, NEW i \in BOOLEAN, NEW v \in BOOLEAN, NEW R, Listed(R),
         i => Below(h, 5), NEW x \in Args, Listed(R \cup {x}), NEW op \in {"fill", "touch"},
         op = "touch" => Statics \subseteq R /\ Below(h, 3) /\ x # "processes"
  PROVE  Safe(<<<<op, x>>>>, Running(h, i, v, R), Running(h, i, v, R \cup {x}))
<1> DEFINE ins == <<op, x>>
           s == Running(h, i, v, R)
           t == Running(h, i, v, R \cup {x})
<1>1. ins \in Instrs /\ ins[1] = op /\ ins[2] = x
  BY DEF Instrs, Ops
<1>2. s \in States /\ Guarded(s) /\ t \in States /\ Guarded(t)
  BY RunningState
<1>3. s.held = h /\ s.ready = R /\ s.idt = s.cs
  BY DEF Running
<1> HIDE DEF ins
<1>4. t = Effect(ins, s)
  BY <1>1 DEF Effect, Running
<1> HIDE DEF s, t
<1>5. Sound(ins, s)
  BY <1>1, <1>3 DEF Sound
<1>6. Safe(<<ins>>, s, t)
  BY <1>1, <1>2, <1>4, <1>5, Single
<1> QED BY <1>6 DEF ins, s, t

\* without_interrupts: interrupts off, and as they were again.
LEMMA FlagIsSafe ==
  ASSUME NEW h \in SUBSET Mutexes, NEW v \in BOOLEAN, NEW R, Listed(R), Below(h, 5)
  PROVE  /\ Safe(<<<<"cli", "IF">>>>, Running(h, TRUE, v, R), Running(h, FALSE, TRUE, R))
         /\ Safe(<<<<"popf", "IF">>>>, Running(h, FALSE, TRUE, R), Running(h, TRUE, TRUE, R))
<1> DEFINE off == <<"cli", "IF">>
           pop == <<"popf", "IF">>
           s == Running(h, TRUE, v, R)
           u == Running(h, FALSE, TRUE, R)
           t == Running(h, TRUE, TRUE, R)
<1>1. /\ off \in Instrs /\ off[1] = "cli" /\ off[2] = "IF"
      /\ pop \in Instrs /\ pop[1] = "popf" /\ pop[2] = "IF"
  BY DEF Instrs, Ops, Args
<1>2. /\ s \in States /\ Guarded(s) /\ t \in States /\ Guarded(t)
      /\ u \in States /\ Guarded(u)
  BY RunningState
<1> HIDE DEF off, pop
<1>3. u = Effect(off, s) /\ t = Effect(pop, u)
  BY <1>1 DEF Effect, Running
<1> HIDE DEF s, t, u
<1>4. Sound(off, s) /\ Sound(pop, u)
  BY <1>1 DEF Sound
<1>5. Safe(<<off>>, s, u) /\ Safe(<<pop>>, u, t)
  BY <1>1, <1>2, <1>3, <1>4, Single
<1> QED BY <1>5 DEF off, pop, s, u, t

\* _print, with interrupts on, under any mutexes that it may wait for.
LEMMA PrintlnIsSafe ==
  ASSUME NEW h \in SUBSET Mutexes, NEW v \in BOOLEAN, NEW R, Listed(R), Below(h, 5)
  PROVE  Safe(Println, On(h, v, R), On(h, TRUE, R))
<1>1. h \cup {"WRITER"} \in SUBSET Mutexes /\ "WRITER" \in Mutexes /\ Rank["WRITER"] = 5
  BY Ranks DEF Mutexes
<1>2. /\ Running(h \cup {"WRITER"}, FALSE, TRUE, R) \in States
      /\ Guarded(Running(h \cup {"WRITER"}, FALSE, TRUE, R))
  BY <1>1, RunningState
<1>3. Safe(<< >>, Running(h \cup {"WRITER"}, FALSE, TRUE, R), Running(h \cup {"WRITER"}, FALSE, TRUE, R))
  BY <1>2, Nothing
<1>4. Safe(With("WRITER", << >>), Running(h, FALSE, TRUE, R), Running(h, FALSE, TRUE, R))
  BY <1>1, <1>3, WithIsSafe
<1>5. Safe(<<<<"cli", "IF">>>> \o With("WRITER", << >>), Running(h, TRUE, v, R), Running(h, FALSE, TRUE, R))
  BY <1>4, FlagIsSafe, Sequel
<1> QED BY <1>5, FlagIsSafe, Sequel DEF Println, On

\* A static behind its mutex gets its value.
LEMMA FillIsSafe ==
  ASSUME NEW h \in SUBSET Mutexes, NEW v \in BOOLEAN, NEW R, Listed(R),
         NEW m \in Mutexes, Below(h, Rank[m]), Rank[m] < 5
  PROVE  Safe(Fill(m), On(h, v, R), On(h, v, R \cup {m}))
<1>1. h \cup {m} \in SUBSET Mutexes /\ Below(h \cup {m}, 5)
  BY Ranks DEF Below
<1>2. m \in Args /\ Listed(R \cup {m})
  BY DEF Args, Listed, Mutexes
<1>3. Safe(<<<<"fill", m>>>>, Running(h \cup {m}, TRUE, v, R), Running(h \cup {m}, TRUE, v, R \cup {m}))
  BY <1>1, <1>2, FillsIsSafe
<1> QED BY <1>2, <1>3, WithIsSafe DEF Fill, On

\* A page of the heap is accessed, under mutexes below those of the page fault
\* handler.
LEMMA TouchIsSafe ==
  ASSUME NEW h \in SUBSET Mutexes, NEW v \in BOOLEAN, NEW R, Listed(R), Statics \subseteq R,
         Below(h, 3), NEW x \in Args, x # "processes"
  PROVE  Safe(Touch(x), On(h, v, R), On(h, v, R \cup {x}))
<1>1. Below(h, 5)
  BY BelowMore
<1>2. Listed(R \cup {x})
  BY DEF Listed
<1> QED BY <1>1, <1>2, FillsIsSafe DEF Touch, On

\* The allocator writes to the heap.
LEMMA HeaderIsSafe ==
  ASSUME NEW h \in SUBSET Mutexes, NEW v \in BOOLEAN, NEW R, Listed(R), Statics \subseteq R,
         Below(h, 2)
  PROVE  Safe(With("ALLOCATOR", Touch("header")), On(h, v, R), On(h, v, R \cup {"header"}))
<1>1. /\ "ALLOCATOR" \in Mutexes /\ Rank["ALLOCATOR"] = 2
      /\ h \cup {"ALLOCATOR"} \in SUBSET Mutexes /\ Below(h \cup {"ALLOCATOR"}, 3)
  BY Ranks DEF Below, Mutexes
<1>2. "header" \in Args /\ Listed(R \cup {"header"})
  BY DEF Args, Listed
<1>3. Safe(Touch("header"), On(h \cup {"ALLOCATOR"}, v, R), On(h \cup {"ALLOCATOR"}, v, R \cup {"header"}))
  BY <1>1, <1>2, TouchIsSafe
<1>4. Below(h, Rank["ALLOCATOR"]) /\ Rank["ALLOCATOR"] < 5
  BY <1>1
<1> QED BY <1>1, <1>2, <1>3, <1>4, WithIsSafe DEF On

\* A heap allocation, and the first use of the block.
LEMMA AllocIsSafe ==
  ASSUME NEW h \in SUBSET Mutexes, NEW v \in BOOLEAN, NEW R, Listed(R), Statics \subseteq R,
         Below(h, 2), NEW x \in Args \ {"processes"}, NEW y \in Args \ {"processes"},
         NEW z \in Args \ {"processes"}
  PROVE  /\ Safe(Alloc(x, y, z), On(h, v, R), On(h, v, R \cup {x, y, z}))
         /\ Listed(R \cup {x, y, z})
<1> DEFINE k == h \cup {"ALLOCATOR"}
           R1 == R \cup {x}
           R2 == R1 \cup {z}
           R3 == R2 \cup {y}
<1>1. /\ "ALLOCATOR" \in Mutexes /\ Rank["ALLOCATOR"] = 2 /\ k \in SUBSET Mutexes /\ Below(k, 3)
  BY Ranks DEF Below, Mutexes
<1>2. Below(h, 3) /\ Below(h, Rank["ALLOCATOR"]) /\ Rank["ALLOCATOR"] < 5
  BY <1>1, BelowMore
<1>3. Listed(R1) /\ Listed(R2) /\ Listed(R3)
  BY DEF Listed
<1>4. Statics \subseteq R1 /\ Statics \subseteq R2 /\ R3 = R \cup {x, y, z}
  OBVIOUS
<1> HIDE DEF k
<1>5. Safe(Touch(x), On(k, v, R), On(k, v, R1))
  BY <1>1, TouchIsSafe
<1> HIDE DEF R1
<1>6. Safe(Touch(z), On(k, v, R1), On(k, v, R2))
  BY <1>1, <1>3, <1>4, TouchIsSafe
<1> HIDE DEF R2
<1>7. Safe(Touch(x) \o Touch(z), On(k, v, R), On(k, v, R2))
  BY <1>5, <1>6, Sequel
<1>8. Safe(With("ALLOCATOR", Touch(x) \o Touch(z)), On(h, v, R), On(h, v, R2))
  BY <1>1, <1>2, <1>3, <1>7, WithIsSafe DEF On, k
<1>9. Safe(Touch(y), On(h, v, R2), On(h, v, R3))
  BY <1>2, <1>3, <1>4, TouchIsSafe
<1> HIDE DEF R3
<1> QED BY <1>3, <1>4, <1>8, <1>9, Sequel DEF Alloc

-----------------------------------------------------------------------------
(***************************************************************************)
(* The three programs.                                                     *)
(***************************************************************************)
\* Before init_idt has remapped the PIC.
Early(h, c, d) ==
  [held |-> h, ifl |-> FALSE, saved |-> FALSE, cs |-> c, idt |-> d, remapped |-> FALSE,
   ready |-> {}]

Start == Early({}, "loader", "none")

\* The segments, the gates and the PIC, before interrupts are enabled.
LEMMA SetUpIsSafe ==
  Safe(Gdt_init \o Init_idt, Start, On({}, FALSE, {}))
<1> DEFINE s1 == Early({}, "loader", "none")
           s2 == Early({}, "kernel", "none")
           s3 == Early({}, "kernel", "kernel")
           s4 == Early({"PICS"}, "kernel", "kernel")
           s5 == Running({"PICS"}, FALSE, FALSE, {})
           s6 == Running({}, FALSE, FALSE, {})
           s7 == Running({}, TRUE, FALSE, {})
           gdt == <<"lgdt", "GDT">>
           idt == <<"lidt", "IDT">>
           lock == <<"lock", "PICS">>
           map == <<"remap", "PICS">>
           sti == <<"sti", "IF">>
<1>1. /\ gdt \in Instrs /\ gdt[1] = "lgdt" /\ gdt[2] = "GDT"
      /\ idt \in Instrs /\ idt[1] = "lidt" /\ idt[2] = "IDT"
      /\ lock \in Instrs /\ lock[1] = "lock" /\ lock[2] = "PICS"
      /\ map \in Instrs /\ map[1] = "remap" /\ map[2] = "PICS"
      /\ sti \in Instrs /\ sti[1] = "sti" /\ sti[2] = "IF"
  BY DEF Instrs, Ops, Args, Mutexes
<1>2. "PICS" \in Mutexes /\ {"PICS"} \in SUBSET Mutexes /\ {} \in SUBSET Mutexes /\ Listed({})
  BY DEF Mutexes, Listed
<1>3. /\ s1 \in States /\ Guarded(s1) /\ s2 \in States /\ Guarded(s2)
      /\ s3 \in States /\ Guarded(s3) /\ s4 \in States /\ Guarded(s4)
  BY <1>2 DEF Early, States, Guarded
<1>4. Below({}, 5) /\ Below({}, Rank["PICS"])
  BY DEF Below
<1>5. /\ s5 \in States /\ Guarded(s5) /\ s6 \in States /\ Guarded(s6)
      /\ s7 \in States /\ Guarded(s7)
  BY <1>2, <1>4, RunningState
<1> HIDE DEF gdt, idt, lock, map, sti
<1>6. s2 = Effect(gdt, s1) /\ s3 = Effect(idt, s2) /\ s4 = Effect(lock, s3)
  BY <1>1 DEF Effect, Early
<1>7. s5 = Effect(map, s4) /\ s7 = Effect(sti, s6)
  BY <1>1 DEF Effect, Early, Running
<1>8. s3.held = {}
  BY DEF Early
<1> HIDE DEF s1, s2, s3, s4, s5, s6, s7
<1>9. Sound(gdt, s1) /\ Sound(idt, s2) /\ Sound(lock, s3) /\ Sound(map, s4) /\ Sound(sti, s6)
  BY <1>1, <1>2, <1>4, <1>8 DEF Sound
<1>10. Safe(<<gdt>>, s1, s2) /\ Safe(<<idt>>, s2, s3)
  BY <1>1, <1>3, <1>6, <1>9, Single
<1>11. Safe(<<lock>>, s3, s4)
  BY <1>1, <1>3, <1>6, <1>9, Single
<1>12. Safe(<<map>>, s4, s5)
  BY <1>1, <1>3, <1>5, <1>7, <1>9, Single
<1>13. Safe(<<sti>>, s6, s7)
  BY <1>1, <1>5, <1>7, <1>9, Single
<1>14. Safe(<<<<"unlock", "PICS">>>>, s5, s6)
  <2>1. {} \cup {"PICS"} = {"PICS"}
    OBVIOUS
  <2>2. Safe(<<<<"unlock", "PICS">>>>, Running({} \cup {"PICS"}, FALSE, FALSE, {}), Running({}, FALSE, FALSE, {}))
    BY <1>2, <1>4, UnlockIsSafe
  <2> QED BY <2>1, <2>2 DEF s5, s6
<1>15. Safe(<<lock>> \o <<map>>, s3, s5)
  BY <1>11, <1>12, Sequel
<1>16. Safe(With("PICS", <<map>>), s3, s6)
  BY <1>14, <1>15, Sequel DEF With, lock
<1>17. Safe(<<idt>> \o With("PICS", <<map>>), s2, s6)
  BY <1>10, <1>16, Sequel
<1>18. Safe(<<idt>> \o With("PICS", <<map>>) \o <<sti>>, s2, s7)
  BY <1>13, <1>17, Sequel
<1>19. Safe(Init_idt, s2, s7)
  BY <1>18 DEF Init_idt, idt, map, sti
<1>20. Safe(Gdt_init, s1, s2)
  BY <1>10 DEF Gdt_init, gdt
<1> QED BY <1>19, <1>20, Sequel DEF s1, s7, Start, On

\* The breakpoint that both kernels take on purpose.
LEMMA BreakpointIsSafe ==
  ASSUME NEW v \in BOOLEAN
  PROVE  Safe(<<<<"int", "breakpoint">>>>, On({}, v, {}), On({}, v, {}))
<1> DEFINE ins == <<"int", "breakpoint">>
           s == Running({}, TRUE, v, {})
<1>1. ins \in Instrs /\ ins[1] = "int" /\ ins[2] = "breakpoint"
  BY DEF Instrs, Ops, Args
<1>2. {} \in SUBSET Mutexes /\ Listed({}) /\ Below({}, 5)
  BY DEF Listed, Below
<1>3. s \in States /\ Guarded(s)
  BY <1>2, RunningState
<1>4. s.held = {} /\ s.idt = s.cs
  BY DEF Running
<1> HIDE DEF ins, s
<1>5. s = Effect(ins, s)
  BY <1>1 DEF Effect
<1>6. Sound(ins, s)
  BY <1>1, <1>2, <1>4 DEF Sound
<1>7. Safe(<<ins>>, s, s)
  BY <1>1, <1>3, <1>5, <1>6, Single
<1> QED BY <1>7 DEF ins, s, On

\* What is ready when the heap is.
Heap_ready == Statics \cup {"header"}

\* The mapper, the frames and then the heap.
LEMMA MemoryIsSafe ==
  ASSUME NEW v \in BOOLEAN
  PROVE  /\ Safe(Init_global_memory, On({}, v, {}), On({}, v, Statics))
         /\ Safe(Init_heap, On({}, v, Statics), On({}, v, Heap_ready))
         /\ Listed(Heap_ready) /\ Statics \subseteq Heap_ready
<1>1. /\ {} \in SUBSET Mutexes /\ Listed({}) /\ Listed({"MAPPER"}) /\ Listed(Statics)
      /\ Listed(Heap_ready) /\ Statics \subseteq Heap_ready
  BY DEF Listed, Statics, Heap_ready, Args, Mutexes
<1>2. /\ "MAPPER" \in Mutexes /\ "FRAME_ALLOCATOR" \in Mutexes
      /\ Rank["MAPPER"] < 5 /\ Rank["FRAME_ALLOCATOR"] < 5
  BY Ranks DEF Mutexes
<1>3. /\ Below({}, Rank["MAPPER"]) /\ Below({}, Rank["FRAME_ALLOCATOR"]) /\ Below({}, 2)
  BY DEF Below
<1>4. {} \cup {"MAPPER"} = {"MAPPER"} /\ {"MAPPER"} \cup {"FRAME_ALLOCATOR"} = Statics
  BY DEF Statics
<1>5. Safe(Fill("MAPPER"), On({}, v, {}), On({}, v, {} \cup {"MAPPER"}))
  BY <1>1, <1>2, <1>3, FillIsSafe
<1>6. Safe(Fill("FRAME_ALLOCATOR"), On({}, v, {"MAPPER"}), On({}, v, {"MAPPER"} \cup {"FRAME_ALLOCATOR"}))
  BY <1>1, <1>2, <1>3, FillIsSafe
<1>7. Safe(Init_global_memory, On({}, v, {}), On({}, v, Statics))
  BY <1>4, <1>5, <1>6, Sequel DEF Init_global_memory
<1>8. Safe(Init_heap, On({}, v, Statics), On({}, v, Statics \cup {"header"}))
  BY <1>1, <1>3, HeaderIsSafe DEF Init_heap
<1> QED BY <1>1, <1>7, <1>8 DEF Heap_ready

\* The scan of the buses, which may enable the card's interrupt and store a driver.
LEMMA ScanIsSafe ==
  ASSUME NEW v \in BOOLEAN, NEW R, Listed(R)
  PROVE  /\ Safe(Scan(TRUE), On({}, v, R), On({}, TRUE, R \cup {"imr"} \cup {"RTL8139"}))
         /\ Safe(Scan(FALSE), On({}, v, R), On({}, TRUE, R))
         /\ Listed(R \cup {"imr"} \cup {"RTL8139"})
<1> DEFINE s == On({}, v, R)
           u == On({}, TRUE, R)
           w == On({}, TRUE, R \cup {"imr"})
           t == On({}, TRUE, R \cup {"imr"} \cup {"RTL8139"})
           imr == <<<<"fill", "imr">>>>
<1>1. /\ {} \in SUBSET Mutexes /\ "RTL8139" \in Mutexes /\ "imr" \in Args
      /\ Listed(R \cup {"imr"}) /\ Listed(R \cup {"imr"} \cup {"RTL8139"})
  BY DEF Mutexes, Listed, Args
<1>2. Below({}, 5) /\ Below({}, Rank["RTL8139"]) /\ Rank["RTL8139"] < 5
  BY Ranks DEF Below
<1>3. /\ Safe(Println, s, u) /\ Safe(Println, u, u) /\ Safe(Println, w, w)
      /\ Safe(Println, t, t)
  BY <1>1, <1>2, PrintlnIsSafe
<1>4. Safe(Fill("RTL8139"), w, t)
  BY <1>1, <1>2, FillIsSafe
<1>5. Safe(imr, u, w)
  BY <1>1, <1>2, FillsIsSafe DEF On
<1>6. u \in States /\ Guarded(u)
  BY <1>1, <1>2, RunningState DEF On
<1> HIDE DEF s, u, w, t, imr
<1>7. Safe(Println \o Println, u, u)
  BY <1>3, Sequel
<1>8. Safe(Println \o Println \o imr, u, w)
  BY <1>5, <1>7, Sequel
<1>9. Safe(Driver_init, u, w)
  BY <1>3, <1>8, Sequel DEF Driver_init, imr
<1>10. Safe(Println \o Driver_init, u, w)
  BY <1>3, <1>9, Sequel
<1>11. Safe(Println \o Driver_init \o Fill("RTL8139"), u, t)
  BY <1>4, <1>10, Sequel
<1>12. Safe(Init_device, u, t)
  BY <1>3, <1>11, Sequel DEF Init_device
<1>13. Safe(Println \o Init_device, u, t)
  BY <1>3, <1>12, Sequel
<1>14. Safe(Println \o (Println \o Init_device), s, t)
  BY <1>3, <1>13, Sequel
<1>15. Safe(<< >>, u, u)
  BY <1>6, Nothing
<1>16. Safe(Println \o << >>, s, u)
  BY <1>3, <1>15, Sequel
<1>17. Scan(TRUE) = Println \o (Println \o Init_device) /\ Scan(FALSE) = Println \o << >>
  BY DEF Scan
<1> QED BY <1>1, <1>14, <1>16, <1>17 DEF s, u, t

\* The test packet, sent with the driver and the mapper locked.
LEMMA SendIsSafe ==
  ASSUME NEW R, Listed(R)
  PROVE  /\ Safe(Send_test_packet(TRUE), On({}, TRUE, R), On({}, TRUE, R))
         /\ Safe(Send_test_packet(FALSE), On({}, TRUE, R), On({}, TRUE, R))
<1> DEFINE h == {} \cup {"RTL8139"}
           k == h \cup {"MAPPER"}
<1>1. /\ {} \in SUBSET Mutexes /\ h \in SUBSET Mutexes /\ k \in SUBSET Mutexes
      /\ "RTL8139" \in Mutexes /\ "MAPPER" \in Mutexes
  BY DEF Mutexes
<1>2. /\ Below({}, Rank["RTL8139"]) /\ Below(h, Rank["MAPPER"]) /\ Below(h, 5) /\ Below(k, 5)
      /\ Rank["RTL8139"] < 5 /\ Rank["MAPPER"] < 5
  BY Ranks DEF Below
<1> HIDE DEF k
<1>3. Safe(Println, On(k, TRUE, R), On(k, TRUE, R))
  BY <1>1, <1>2, PrintlnIsSafe
<1>4. Safe(Println \o Println, On(k, TRUE, R), On(k, TRUE, R))
  BY <1>3, Sequel
<1> HIDE DEF h
<1>5. Safe(With("MAPPER", Println \o Println), On(h, TRUE, R), On(h, TRUE, R))
  BY <1>1, <1>2, <1>4, WithIsSafe DEF On, k
<1>6. On(h, TRUE, R) \in States /\ Guarded(On(h, TRUE, R))
  BY <1>1, <1>2, RunningState DEF On
<1>7. Safe(<< >>, On(h, TRUE, R), On(h, TRUE, R))
  BY <1>6, Nothing
<1>8. /\ Safe(With("RTL8139", With("MAPPER", Println \o Println)), On({}, TRUE, R), On({}, TRUE, R))
      /\ Safe(With("RTL8139", << >>), On({}, TRUE, R), On({}, TRUE, R))
  BY <1>1, <1>2, <1>5, <1>7, WithIsSafe DEF On, h
<1>9. /\ Send_test_packet(TRUE) = With("RTL8139", With("MAPPER", Println \o Println))
      /\ Send_test_packet(FALSE) = With("RTL8139", << >>)
  BY DEF Send_test_packet
<1> QED BY <1>8, <1>9

\* The scheduler, its process list and its stacks, allocated under its mutex;
\* the processes are only announced to the handlers when the list is there.
LEMMA SchedulerIsSafe ==
  ASSUME NEW R, Listed(R), Statics \subseteq R
  PROVE  \E Q : Listed(Q) /\ Safe(Start_scheduler, On({}, TRUE, R), On({}, TRUE, Q))
<1> DEFINE h == {} \cup {"SCHEDULER"}
           R0 == R \cup {"SCHEDULER"}
           R1 == R0 \cup {"header", "list", "hole1"}
           R2 == R1 \cup {"hole1", "stack1", "hole2"}
           R3 == R2 \cup {"hole2", "stack2", "hole3"}
           R4 == R3 \cup {"hole3", "stack3", "hole4"}
           R5 == R4 \cup {"processes"}
           a1 == Alloc("header", "list", "hole1")
           a2 == Alloc("hole1", "stack1", "hole2")
           a3 == Alloc("hole2", "stack2", "hole3")
           a4 == Alloc("hole3", "stack3", "hole4")
           fill == <<<<"fill", "processes">>>>
<1>1. /\ {} \in SUBSET Mutexes /\ h \in SUBSET Mutexes /\ "SCHEDULER" \in Mutexes
      /\ Rank["SCHEDULER"] < 5
  BY Ranks DEF Mutexes
<1>2. /\ Below({}, Rank["SCHEDULER"]) /\ Below(h, 2) /\ Below(h, 5)
  BY Ranks DEF Below
<1>3. /\ {"header", "list", "stack1", "stack2", "stack3"} \subseteq Args \ {"processes"}
      /\ {"hole1", "hole2", "hole3", "hole4"} \subseteq Args \ {"processes"}
      /\ "processes" \in Args
  BY DEF Args
<1>4. Listed(R0)
  BY DEF Listed, Args, Mutexes
<1>5. /\ Statics \subseteq R0 /\ Statics \subseteq R1 /\ Statics \subseteq R2
      /\ Statics \subseteq R3 /\ "list" \in R4
  OBVIOUS
<1>6. Safe(Fill("SCHEDULER"), On({}, TRUE, R), On({}, TRUE, R0))
  BY <1>1, <1>2, FillIsSafe
<1> HIDE DEF R0, h
<1>7. Safe(a1, On(h, TRUE, R0), On(h, TRUE, R1)) /\ Listed(R1)
  BY <1>1, <1>2, <1>3, <1>4, <1>5, AllocIsSafe
<1> HIDE DEF R1
<1>8. Safe(a2, On(h, TRUE, R1), On(h, TRUE, R2)) /\ Listed(R2)
  BY <1>1, <1>2, <1>3, <1>5, <1>7, AllocIsSafe
<1> HIDE DEF R2
<1>9. Safe(a3, On(h, TRUE, R2), On(h, TRUE, R3)) /\ Listed(R3)
  BY <1>1, <1>2, <1>3, <1>5, <1>8, AllocIsSafe
<1> HIDE DEF R3
<1>10. Safe(a4, On(h, TRUE, R3), On(h, TRUE, R4)) /\ Listed(R4)
  BY <1>1, <1>2, <1>3, <1>5, <1>9, AllocIsSafe
<1> HIDE DEF R4
<1>11. Listed(R5)
  BY <1>3, <1>5, <1>10 DEF Listed
<1>12. Safe(fill, On(h, TRUE, R4), On(h, TRUE, R5))
  BY <1>1, <1>2, <1>3, <1>10, <1>11, FillsIsSafe DEF On
<1> HIDE DEF R5, fill, a1, a2, a3, a4
<1>13. Safe(a1 \o a2, On(h, TRUE, R0), On(h, TRUE, R2))
  BY <1>7, <1>8, Sequel
<1>14. Safe(a1 \o a2 \o a3, On(h, TRUE, R0), On(h, TRUE, R3))
  BY <1>9, <1>13, Sequel
<1> DEFINE allocs == a1 \o a2 \o a3 \o a4
<1>15. Safe(allocs, On(h, TRUE, R0), On(h, TRUE, R4))
  BY <1>10, <1>14, Sequel
<1> HIDE DEF allocs
<1>16. Safe(allocs \o fill, On(h, TRUE, R0), On(h, TRUE, R5))
  BY <1>12, <1>15, Sequel
<1> DEFINE body == allocs \o fill
<1> HIDE DEF body
<1>17. Safe(body, Running({} \cup {"SCHEDULER"}, TRUE, TRUE, R0), Running({} \cup {"SCHEDULER"}, TRUE, TRUE, R5))
  BY <1>16 DEF body, On, h
<1>18. Safe(With("SCHEDULER", body), On({}, TRUE, R0), On({}, TRUE, R5))
  BY <1>1, <1>2, <1>4, <1>11, <1>17, WithIsSafe DEF On
<1>19. Safe(Fill("SCHEDULER") \o With("SCHEDULER", body), On({}, TRUE, R), On({}, TRUE, R5))
  BY <1>6, <1>18, Sequel
<1>20. Start_scheduler = Fill("SCHEDULER") \o With("SCHEDULER", body)
  BY Zenon DEF Start_scheduler, body, allocs, fill, a1, a2, a3, a4
<1> QED BY <1>11, <1>19, <1>20, Zenon

\* kernel_main of something_os_networking, with a card or without one.
LEMMA NetworkingIsSafe ==
  ASSUME NEW card \in BOOLEAN
  PROVE  \E Q : Safe(Kernel_main_networking(card), Start, On({}, TRUE, Q))
<1> DEFINE int == <<<<"int", "breakpoint">>>>
           Q == IF card THEN Heap_ready \cup {"imr"} \cup {"RTL8139"} ELSE Heap_ready
           c1 == Gdt_init \o Init_idt
           c2 == c1 \o int
           c3 == c2 \o Init_global_memory
           c4 == c3 \o Init_heap
           c5 == c4 \o Scan(card)
           c6 == c5 \o Send_test_packet(card)
<1>1. Safe(c1, Start, On({}, FALSE, {}))
  BY SetUpIsSafe
<1>2. Safe(int, On({}, FALSE, {}), On({}, FALSE, {}))
  BY BreakpointIsSafe
<1>3. /\ Safe(Init_global_memory, On({}, FALSE, {}), On({}, FALSE, Statics))
      /\ Safe(Init_heap, On({}, FALSE, Statics), On({}, FALSE, Heap_ready))
      /\ Listed(Heap_ready)
  BY MemoryIsSafe
<1>4. Safe(Scan(card), On({}, FALSE, Heap_ready), On({}, TRUE, Q)) /\ Listed(Q)
  BY <1>3, ScanIsSafe
<1> HIDE DEF Q
<1>5. Safe(Send_test_packet(card), On({}, TRUE, Q), On({}, TRUE, Q))
  BY <1>4, SendIsSafe
<1> HIDE DEF c1, int
<1>6. Safe(c2, Start, On({}, FALSE, {}))
  BY <1>1, <1>2, Sequel
<1> HIDE DEF c2
<1>7. Safe(c3, Start, On({}, FALSE, Statics))
  BY <1>3, <1>6, Sequel
<1> HIDE DEF c3
<1>8. Safe(c4, Start, On({}, FALSE, Heap_ready))
  BY <1>3, <1>7, Sequel
<1> HIDE DEF c4
<1>9. Safe(c5, Start, On({}, TRUE, Q))
  BY <1>4, <1>8, Sequel
<1> HIDE DEF c5
<1>10. Safe(c6, Start, On({}, TRUE, Q))
  BY <1>5, <1>9, Sequel
<1>11. Kernel_main_networking(card) = c6
  BY Zenon DEF Kernel_main_networking, c5, c4, c3, c2, c1, int
<1> QED BY <1>10, <1>11, Zenon

\* kernel_main of something_os.
LEMMA SomethingOsIsSafe ==
  \E Q : Safe(Kernel_main_something_os, Start, On({}, TRUE, Q))
<1> DEFINE int == <<<<"int", "breakpoint">>>>
           c1 == Gdt_init \o Init_idt
           c2 == c1 \o Check_network_card
           c3 == c2 \o int
           c4 == c3 \o Init_global_memory
           c5 == c4 \o Init_heap
           c6 == c5 \o Println
           c7 == c6 \o Start_scheduler
           c8 == c7 \o Println
<1>1. {} \in SUBSET Mutexes /\ Listed({}) /\ Below({}, 5)
  BY DEF Listed, Below
<1>2. Safe(c1, Start, On({}, FALSE, {}))
  BY SetUpIsSafe
<1>3. Safe(Println, On({}, FALSE, {}), On({}, TRUE, {})) /\ Safe(Println, On({}, TRUE, {}), On({}, TRUE, {}))
  BY <1>1, PrintlnIsSafe
<1>4. Safe(Check_network_card, On({}, FALSE, {}), On({}, TRUE, {}))
  BY <1>3, Sequel DEF Check_network_card
<1>5. Safe(int, On({}, TRUE, {}), On({}, TRUE, {}))
  BY BreakpointIsSafe
<1>6. /\ Safe(Init_global_memory, On({}, TRUE, {}), On({}, TRUE, Statics))
      /\ Safe(Init_heap, On({}, TRUE, Statics), On({}, TRUE, Heap_ready))
      /\ Listed(Heap_ready) /\ Statics \subseteq Heap_ready
  BY MemoryIsSafe
<1>7. PICK Q : Listed(Q) /\ Safe(Start_scheduler, On({}, TRUE, Heap_ready), On({}, TRUE, Q))
  BY <1>6, SchedulerIsSafe
<1>8. Safe(Println, On({}, TRUE, Heap_ready), On({}, TRUE, Heap_ready)) /\ Safe(Println, On({}, TRUE, Q), On({}, TRUE, Q))
  BY <1>1, <1>6, <1>7, PrintlnIsSafe
<1> HIDE DEF c1, int
<1>9. Safe(c2, Start, On({}, TRUE, {}))
  BY <1>2, <1>4, Sequel
<1> HIDE DEF c2
<1>10. Safe(c3, Start, On({}, TRUE, {}))
  BY <1>5, <1>9, Sequel
<1> HIDE DEF c3
<1>11. Safe(c4, Start, On({}, TRUE, Statics))
  BY <1>6, <1>10, Sequel
<1> HIDE DEF c4
<1>12. Safe(c5, Start, On({}, TRUE, Heap_ready))
  BY <1>6, <1>11, Sequel
<1> HIDE DEF c5
<1>13. Safe(c6, Start, On({}, TRUE, Heap_ready))
  BY <1>8, <1>12, Sequel
<1> HIDE DEF c6
<1>14. Safe(c7, Start, On({}, TRUE, Q))
  BY <1>7, <1>13, Sequel
<1> HIDE DEF c7
<1>15. Safe(c8, Start, On({}, TRUE, Q))
  BY <1>8, <1>14, Sequel
<1>16. Kernel_main_something_os = c8
  BY Zenon DEF Kernel_main_something_os, c7, c6, c5, c4, c3, c2, c1, int
<1> QED BY <1>15, <1>16, Zenon

\* The state of kernel_main at each of its instructions.
IsPlan(code, f) ==
  /\ Walk(code, f) /\ f[1] = Start
  /\ f[Len(code) + 1].ifl /\ f[Len(code) + 1].held = {}

Plan(p) == CHOOSE f : IsPlan(Kernel_main[p], f)

\* Every program has such a plan, and ends with interrupts on and no mutex held.
LEMMA PlanExists ==
  ASSUME NEW p \in DOMAIN Kernel_main
  PROVE  IsPlan(Kernel_main[p], Plan(p))
<1>1. \E Q : Safe(Kernel_main[p], Start, On({}, TRUE, Q))
  <2>1. p \in {"something_os", "networking", "networking_no_card"}
    BY DEF Kernel_main
  <2>2. CASE p = "something_os"
    <3>1. Kernel_main[p] = Kernel_main_something_os
      BY <2>2 DEF Kernel_main
    <3> QED BY <3>1, SomethingOsIsSafe
  <2>3. CASE p = "networking"
    <3>1. Kernel_main[p] = Kernel_main_networking(TRUE)
      BY <2>3 DEF Kernel_main
    <3> QED BY <3>1, NetworkingIsSafe
  <2>4. CASE p = "networking_no_card"
    <3>1. Kernel_main[p] = Kernel_main_networking(FALSE)
      BY <2>4 DEF Kernel_main
    <3> QED BY <3>1, NetworkingIsSafe
  <2> QED BY <2>1, <2>2, <2>3, <2>4
<1>2. PICK Q : Safe(Kernel_main[p], Start, On({}, TRUE, Q))
  BY <1>1
<1>3. PICK f : Walk(Kernel_main[p], f) /\ f[1] = Start /\ f[Len(Kernel_main[p]) + 1] = On({}, TRUE, Q)
  BY <1>2, Zenon DEF Safe
<1>4. On({}, TRUE, Q).ifl = TRUE /\ On({}, TRUE, Q).held = {}
  BY DEF On, Running
<1>5. IsPlan(Kernel_main[p], f)
  BY <1>3, <1>4, Zenon DEF IsPlan
<1> QED BY <1>5, Zenon DEF Plan

-----------------------------------------------------------------------------
(***************************************************************************)
(* The handlers.                                                           *)
(***************************************************************************)
\* The mutexes that a handler holds at each of its instructions, and after the
\* last.
Own ==
  [timer      |-> <<{}, {"PICS"}, {"PICS"}, {}, {"SCHEDULER"}, {"SCHEDULER"}, {}>>,
   keyboard   |-> <<{}, {}, {"WRITER"}, {}, {}, {"PICS"}, {"PICS"}, {}, {"SCHEDULER"},
                    {"SCHEDULER"}, {}>>,
   breakpoint |-> <<{}, {}, {"WRITER"}, {}, {}>>,
   page_fault |-> <<{}, {"MAPPER"}, Statics, Statics, {"MAPPER"}, {}>>,
   double_fault |-> <<{}, {}>>]

Active == {"timer", "keyboard", "breakpoint", "page_fault", "double_fault"}

\* The least rank of the mutexes that a handler waits for.
Floor(r) == IF r = "page_fault" THEN 3 ELSE 5

\* A handler keeps to the hierarchy, touches the process list only with the
\* scheduler locked, no handler but the page fault's maps a page, and none takes
\* the card's interrupt for handled.
Orderly(r, op, arg, own, next) ==
  /\ op \in {"lock", "unlock", "try_lock", "touch", "map", "eoi", "cli", "popf", "panic"}
  /\ op = "lock" => /\ arg \in Mutexes /\ Floor(r) <= Rank[arg] /\ Below(own, Rank[arg])
                    /\ "SCHEDULER" \notin own /\ next = own \cup {arg}
  /\ op = "unlock" => arg \in own /\ next = own \ {arg}
  /\ op = "try_lock" => arg = "SCHEDULER" /\ own = {} /\ next = {"SCHEDULER"}
  /\ op = "touch" => arg = "list" /\ "SCHEDULER" \in own
  /\ op = "map" => r = "page_fault"
  /\ op = "eoi" => arg # "card"
  /\ op \in {"touch", "map", "eoi", "cli", "popf", "panic"} => next = own

\* An instruction of a handler is orderly, and try_lock may go past its body.
Disciplined(r, k) ==
  /\ Orderly(r, Handlers[r][k][1], Handlers[r][k][2], Own[r][k], Own[r][k + 1])
  /\ Handlers[r][k][1] = "try_lock" => /\ k + 3 \in 1 .. Len(Handlers[r]) + 1
                                       /\ Own[r][k + 3] = {}

\* What each kind of instruction of a handler has to show.
LEMMA OrderlyOps ==
  ASSUME NEW r, NEW own, NEW m
  PROVE  /\ \A op \in {"cli", "popf", "panic"} : Orderly(r, op, m, own, own)
         /\ m # "card" => Orderly(r, "eoi", m, own, own)
         /\ m \in own => Orderly(r, "unlock", m, own, own \ {m})
         /\ "SCHEDULER" \in own => Orderly(r, "touch", "list", own, own)
         /\ r = "page_fault" => Orderly(r, "map", m, own, own)
         /\ Orderly(r, "try_lock", "SCHEDULER", {}, {"SCHEDULER"})
BY DEF Orderly

\* A lock.
LEMMA OrderlyLock ==
  ASSUME NEW r, NEW own, NEW m \in Mutexes, Floor(r) <= Rank[m], Below(own, Rank[m]),
         "SCHEDULER" \notin own
  PROVE  Orderly(r, "lock", m, own, own \cup {m})
BY DEF Orderly

\* An instruction is disciplined if it is orderly where it stands.
LEMMA DisciplinedAt ==
  ASSUME NEW r, NEW k, NEW op, NEW arg, NEW own, NEW next, Orderly(r, op, arg, own, next),
         Handlers[r][k] = <<op, arg>>, Own[r][k] = own, Own[r][k + 1] = next,
         op = "try_lock" => k + 3 \in 1 .. Len(Handlers[r]) + 1 /\ Own[r][k + 3] = {}
  PROVE  Disciplined(r, k)
<1>1. Handlers[r][k][1] = op /\ Handlers[r][k][2] = arg
  OBVIOUS
<1> QED BY <1>1 DEF Disciplined

\* The timer's handler.
LEMMA TimerDiscipline ==
  /\ Len(Handlers["timer"]) = 6
  /\ \A k \in 1 .. 6 : Disciplined("timer", k)
  /\ Own["timer"][1] = {} /\ Own["timer"][7] = {}
<1> DEFINE c == Timer_interrupt_handler
           o == Own["timer"]
<1>1. /\ Len(c) = 6 /\ c[1] = <<"lock", "PICS">> /\ c[2] = <<"eoi", "timer">>
      /\ c[3] = <<"unlock", "PICS">> /\ c[4] = <<"try_lock", "SCHEDULER">>
      /\ c[5] = <<"touch", "list">> /\ c[6] = <<"unlock", "SCHEDULER">>
  BY DEF Timer_interrupt_handler, With, Preempt_round_robin, Touch
<1> HIDE DEF c
<1>2. Handlers["timer"] = c
  BY DEF Handlers, c
<1>3. /\ o[1] = {} /\ o[2] = {"PICS"} /\ o[3] = {"PICS"} /\ o[4] = {} /\ o[5] = {"SCHEDULER"}
      /\ o[6] = {"SCHEDULER"} /\ o[7] = {}
  BY DEF Own
<1> HIDE DEF o
<1>4. /\ "PICS" \in Mutexes /\ Floor("timer") <= Rank["PICS"] /\ Below({}, Rank["PICS"])
  BY Ranks DEF Below, Mutexes, Floor
<1>5. /\ {"PICS"} = {} \cup {"PICS"} /\ {} = {"PICS"} \ {"PICS"} /\ "PICS" \in {"PICS"}
      /\ {} = {"SCHEDULER"} \ {"SCHEDULER"} /\ "SCHEDULER" \in {"SCHEDULER"}
  BY DEF Statics
<1>6. /\ Orderly("timer", "lock", "PICS", {}, {"PICS"})
      /\ Orderly("timer", "eoi", "timer", {"PICS"}, {"PICS"})
      /\ Orderly("timer", "unlock", "PICS", {"PICS"}, {})
      /\ Orderly("timer", "try_lock", "SCHEDULER", {}, {"SCHEDULER"})
      /\ Orderly("timer", "touch", "list", {"SCHEDULER"}, {"SCHEDULER"})
      /\ Orderly("timer", "unlock", "SCHEDULER", {"SCHEDULER"}, {})
  BY <1>4, <1>5, OrderlyOps, OrderlyLock
<1>7. Disciplined("timer", 1)
  <2>1. /\ Handlers["timer"][1] = <<"lock", "PICS">>
        /\ Own["timer"][1] = {} /\ Own["timer"][1 + 1] = {"PICS"}
    BY <1>1, <1>2, <1>3 DEF o
  <2>2. Orderly("timer", "lock", "PICS", {}, {"PICS"})
    BY <1>6
  <2> QED BY <2>1, <2>2, DisciplinedAt
<1>8. Disciplined("timer", 2)
  <2>1. /\ Handlers["timer"][2] = <<"eoi", "timer">>
        /\ Own["timer"][2] = {"PICS"} /\ Own["timer"][2 + 1] = {"PICS"}
    BY <1>1, <1>2, <1>3 DEF o
  <2>2. Orderly("timer", "eoi", "timer", {"PICS"}, {"PICS"})
    BY <1>6
  <2> QED BY <2>1, <2>2, DisciplinedAt
<1>9. Disciplined("timer", 3)
  <2>1. /\ Handlers["timer"][3] = <<"unlock", "PICS">>
        /\ Own["timer"][3] = {"PICS"} /\ Own["timer"][3 + 1] = {}
    BY <1>1, <1>2, <1>3 DEF o
  <2>2. Orderly("timer", "unlock", "PICS", {"PICS"}, {})
    BY <1>6
  <2> QED BY <2>1, <2>2, DisciplinedAt
<1>10. Disciplined("timer", 4)
  <2>1. /\ Handlers["timer"][4] = <<"try_lock", "SCHEDULER">>
        /\ Own["timer"][4] = {} /\ Own["timer"][4 + 1] = {"SCHEDULER"}
    BY <1>1, <1>2, <1>3 DEF o
  <2>2. Orderly("timer", "try_lock", "SCHEDULER", {}, {"SCHEDULER"})
    BY <1>6
  <2>3. Len(Handlers["timer"]) = 6 /\ Own["timer"][4 + 3] = {}
    BY <1>1, <1>2, <1>3 DEF o
  <2>4. 4 + 3 \in 1 .. Len(Handlers["timer"]) + 1
    BY <2>3
  <2> QED BY <2>1, <2>2, <2>3, <2>4, DisciplinedAt
<1>11. Disciplined("timer", 5)
  <2>1. /\ Handlers["timer"][5] = <<"touch", "list">>
        /\ Own["timer"][5] = {"SCHEDULER"} /\ Own["timer"][5 + 1] = {"SCHEDULER"}
    BY <1>1, <1>2, <1>3 DEF o
  <2>2. Orderly("timer", "touch", "list", {"SCHEDULER"}, {"SCHEDULER"})
    BY <1>6
  <2> QED BY <2>1, <2>2, DisciplinedAt
<1>12. Disciplined("timer", 6)
  <2>1. /\ Handlers["timer"][6] = <<"unlock", "SCHEDULER">>
        /\ Own["timer"][6] = {"SCHEDULER"} /\ Own["timer"][6 + 1] = {}
    BY <1>1, <1>2, <1>3 DEF o
  <2>2. Orderly("timer", "unlock", "SCHEDULER", {"SCHEDULER"}, {})
    BY <1>6
  <2> QED BY <2>1, <2>2, DisciplinedAt
<1>13. ASSUME NEW k \in 1 .. 6 PROVE k = 1 \/ k = 2 \/ k = 3 \/ k = 4 \/ k = 5 \/ k = 6
  OBVIOUS
<1> QED BY <1>1, <1>2, <1>3, <1>7, <1>8, <1>9, <1>10, <1>11, <1>12, <1>13 DEF o

\* The keyboard's handler.
LEMMA KeyboardDiscipline ==
  /\ Len(Handlers["keyboard"]) = 10
  /\ \A k \in 1 .. 10 : Disciplined("keyboard", k)
  /\ Own["keyboard"][1] = {} /\ Own["keyboard"][11] = {}
<1> DEFINE c == Keyboard_interrupt_handler
           o == Own["keyboard"]
<1>1. /\ Len(c) = 10 /\ c[1] = <<"cli", "IF">> /\ c[2] = <<"lock", "WRITER">>
      /\ c[3] = <<"unlock", "WRITER">> /\ c[4] = <<"popf", "IF">> /\ c[5] = <<"lock", "PICS">>
      /\ c[6] = <<"eoi", "keyboard">> /\ c[7] = <<"unlock", "PICS">>
      /\ c[8] = <<"try_lock", "SCHEDULER">> /\ c[9] = <<"touch", "list">>
      /\ c[10] = <<"unlock", "SCHEDULER">>
  BY DEF Keyboard_interrupt_handler, Println, With, Preempt_round_robin, Touch
<1> HIDE DEF c
<1>2. Handlers["keyboard"] = c
  BY DEF Handlers, c
<1>3. /\ o[1] = {} /\ o[2] = {} /\ o[3] = {"WRITER"} /\ o[4] = {} /\ o[5] = {}
      /\ o[6] = {"PICS"} /\ o[7] = {"PICS"} /\ o[8] = {} /\ o[9] = {"SCHEDULER"}
      /\ o[10] = {"SCHEDULER"} /\ o[11] = {}
  BY DEF Own
<1> HIDE DEF o
<1>4. /\ "WRITER" \in Mutexes /\ Floor("keyboard") <= Rank["WRITER"]
      /\ Below({}, Rank["WRITER"]) /\ "PICS" \in Mutexes /\ Floor("keyboard") <= Rank["PICS"]
      /\ Below({}, Rank["PICS"])
  BY Ranks DEF Below, Mutexes, Floor
<1>5. /\ {"WRITER"} = {} \cup {"WRITER"} /\ {} = {"WRITER"} \ {"WRITER"}
      /\ "WRITER" \in {"WRITER"} /\ {"PICS"} = {} \cup {"PICS"} /\ {} = {"PICS"} \ {"PICS"}
      /\ "PICS" \in {"PICS"} /\ {} = {"SCHEDULER"} \ {"SCHEDULER"}
      /\ "SCHEDULER" \in {"SCHEDULER"}
  BY DEF Statics
<1>6. /\ Orderly("keyboard", "cli", "IF", {}, {})
      /\ Orderly("keyboard", "lock", "WRITER", {}, {"WRITER"})
      /\ Orderly("keyboard", "unlock", "WRITER", {"WRITER"}, {})
      /\ Orderly("keyboard", "popf", "IF", {}, {})
      /\ Orderly("keyboard", "lock", "PICS", {}, {"PICS"})
      /\ Orderly("keyboard", "eoi", "keyboard", {"PICS"}, {"PICS"})
      /\ Orderly("keyboard", "unlock", "PICS", {"PICS"}, {})
      /\ Orderly("keyboard", "try_lock", "SCHEDULER", {}, {"SCHEDULER"})
      /\ Orderly("keyboard", "touch", "list", {"SCHEDULER"}, {"SCHEDULER"})
      /\ Orderly("keyboard", "unlock", "SCHEDULER", {"SCHEDULER"}, {})
  BY <1>4, <1>5, OrderlyOps, OrderlyLock
<1>7. Disciplined("keyboard", 1)
  <2>1. /\ Handlers["keyboard"][1] = <<"cli", "IF">>
        /\ Own["keyboard"][1] = {} /\ Own["keyboard"][1 + 1] = {}
    BY <1>1, <1>2, <1>3 DEF o
  <2>2. Orderly("keyboard", "cli", "IF", {}, {})
    BY <1>6
  <2> QED BY <2>1, <2>2, DisciplinedAt
<1>8. Disciplined("keyboard", 2)
  <2>1. /\ Handlers["keyboard"][2] = <<"lock", "WRITER">>
        /\ Own["keyboard"][2] = {} /\ Own["keyboard"][2 + 1] = {"WRITER"}
    BY <1>1, <1>2, <1>3 DEF o
  <2>2. Orderly("keyboard", "lock", "WRITER", {}, {"WRITER"})
    BY <1>6
  <2> QED BY <2>1, <2>2, DisciplinedAt
<1>9. Disciplined("keyboard", 3)
  <2>1. /\ Handlers["keyboard"][3] = <<"unlock", "WRITER">>
        /\ Own["keyboard"][3] = {"WRITER"} /\ Own["keyboard"][3 + 1] = {}
    BY <1>1, <1>2, <1>3 DEF o
  <2>2. Orderly("keyboard", "unlock", "WRITER", {"WRITER"}, {})
    BY <1>6
  <2> QED BY <2>1, <2>2, DisciplinedAt
<1>10. Disciplined("keyboard", 4)
  <2>1. /\ Handlers["keyboard"][4] = <<"popf", "IF">>
        /\ Own["keyboard"][4] = {} /\ Own["keyboard"][4 + 1] = {}
    BY <1>1, <1>2, <1>3 DEF o
  <2>2. Orderly("keyboard", "popf", "IF", {}, {})
    BY <1>6
  <2> QED BY <2>1, <2>2, DisciplinedAt
<1>11. Disciplined("keyboard", 5)
  <2>1. /\ Handlers["keyboard"][5] = <<"lock", "PICS">>
        /\ Own["keyboard"][5] = {} /\ Own["keyboard"][5 + 1] = {"PICS"}
    BY <1>1, <1>2, <1>3 DEF o
  <2>2. Orderly("keyboard", "lock", "PICS", {}, {"PICS"})
    BY <1>6
  <2> QED BY <2>1, <2>2, DisciplinedAt
<1>12. Disciplined("keyboard", 6)
  <2>1. /\ Handlers["keyboard"][6] = <<"eoi", "keyboard">>
        /\ Own["keyboard"][6] = {"PICS"} /\ Own["keyboard"][6 + 1] = {"PICS"}
    BY <1>1, <1>2, <1>3 DEF o
  <2>2. Orderly("keyboard", "eoi", "keyboard", {"PICS"}, {"PICS"})
    BY <1>6
  <2> QED BY <2>1, <2>2, DisciplinedAt
<1>13. Disciplined("keyboard", 7)
  <2>1. /\ Handlers["keyboard"][7] = <<"unlock", "PICS">>
        /\ Own["keyboard"][7] = {"PICS"} /\ Own["keyboard"][7 + 1] = {}
    BY <1>1, <1>2, <1>3 DEF o
  <2>2. Orderly("keyboard", "unlock", "PICS", {"PICS"}, {})
    BY <1>6
  <2> QED BY <2>1, <2>2, DisciplinedAt
<1>14. Disciplined("keyboard", 8)
  <2>1. /\ Handlers["keyboard"][8] = <<"try_lock", "SCHEDULER">>
        /\ Own["keyboard"][8] = {} /\ Own["keyboard"][8 + 1] = {"SCHEDULER"}
    BY <1>1, <1>2, <1>3 DEF o
  <2>2. Orderly("keyboard", "try_lock", "SCHEDULER", {}, {"SCHEDULER"})
    BY <1>6
  <2>3. Len(Handlers["keyboard"]) = 10 /\ Own["keyboard"][8 + 3] = {}
    BY <1>1, <1>2, <1>3 DEF o
  <2>4. 8 + 3 \in 1 .. Len(Handlers["keyboard"]) + 1
    BY <2>3
  <2> QED BY <2>1, <2>2, <2>3, <2>4, DisciplinedAt
<1>15. Disciplined("keyboard", 9)
  <2>1. /\ Handlers["keyboard"][9] = <<"touch", "list">>
        /\ Own["keyboard"][9] = {"SCHEDULER"} /\ Own["keyboard"][9 + 1] = {"SCHEDULER"}
    BY <1>1, <1>2, <1>3 DEF o
  <2>2. Orderly("keyboard", "touch", "list", {"SCHEDULER"}, {"SCHEDULER"})
    BY <1>6
  <2> QED BY <2>1, <2>2, DisciplinedAt
<1>16. Disciplined("keyboard", 10)
  <2>1. /\ Handlers["keyboard"][10] = <<"unlock", "SCHEDULER">>
        /\ Own["keyboard"][10] = {"SCHEDULER"} /\ Own["keyboard"][10 + 1] = {}
    BY <1>1, <1>2, <1>3 DEF o
  <2>2. Orderly("keyboard", "unlock", "SCHEDULER", {"SCHEDULER"}, {})
    BY <1>6
  <2> QED BY <2>1, <2>2, DisciplinedAt
<1>17. ASSUME NEW k \in 1 .. 10 PROVE k = 1 \/ k = 2 \/ k = 3 \/ k = 4 \/ k = 5 \/ k = 6 \/ k = 7 \/ k = 8 \/ k = 9 \/ k = 10
  OBVIOUS
<1> QED BY <1>1, <1>2, <1>3, <1>7, <1>8, <1>9, <1>10, <1>11, <1>12, <1>13, <1>14, <1>15, <1>16, <1>17 DEF o

\* The breakpoint handler.
LEMMA BreakpointDiscipline ==
  /\ Len(Handlers["breakpoint"]) = 4
  /\ \A k \in 1 .. 4 : Disciplined("breakpoint", k)
  /\ Own["breakpoint"][1] = {} /\ Own["breakpoint"][5] = {}
<1> DEFINE c == Breakpoint_handler
           o == Own["breakpoint"]
<1>1. /\ Len(c) = 4 /\ c[1] = <<"cli", "IF">> /\ c[2] = <<"lock", "WRITER">>
      /\ c[3] = <<"unlock", "WRITER">> /\ c[4] = <<"popf", "IF">>
  BY DEF Breakpoint_handler, Println, With
<1> HIDE DEF c
<1>2. Handlers["breakpoint"] = c
  BY DEF Handlers, c
<1>3. /\ o[1] = {} /\ o[2] = {} /\ o[3] = {"WRITER"} /\ o[4] = {} /\ o[5] = {}
  BY DEF Own
<1> HIDE DEF o
<1>4. /\ "WRITER" \in Mutexes /\ Floor("breakpoint") <= Rank["WRITER"]
      /\ Below({}, Rank["WRITER"])
  BY Ranks DEF Below, Mutexes, Floor
<1>5. /\ {"WRITER"} = {} \cup {"WRITER"} /\ {} = {"WRITER"} \ {"WRITER"}
      /\ "WRITER" \in {"WRITER"}
  BY DEF Statics
<1>6. /\ Orderly("breakpoint", "cli", "IF", {}, {})
      /\ Orderly("breakpoint", "lock", "WRITER", {}, {"WRITER"})
      /\ Orderly("breakpoint", "unlock", "WRITER", {"WRITER"}, {})
      /\ Orderly("breakpoint", "popf", "IF", {}, {})
  BY <1>4, <1>5, OrderlyOps, OrderlyLock
<1>7. Disciplined("breakpoint", 1)
  <2>1. /\ Handlers["breakpoint"][1] = <<"cli", "IF">>
        /\ Own["breakpoint"][1] = {} /\ Own["breakpoint"][1 + 1] = {}
    BY <1>1, <1>2, <1>3 DEF o
  <2>2. Orderly("breakpoint", "cli", "IF", {}, {})
    BY <1>6
  <2> QED BY <2>1, <2>2, DisciplinedAt
<1>8. Disciplined("breakpoint", 2)
  <2>1. /\ Handlers["breakpoint"][2] = <<"lock", "WRITER">>
        /\ Own["breakpoint"][2] = {} /\ Own["breakpoint"][2 + 1] = {"WRITER"}
    BY <1>1, <1>2, <1>3 DEF o
  <2>2. Orderly("breakpoint", "lock", "WRITER", {}, {"WRITER"})
    BY <1>6
  <2> QED BY <2>1, <2>2, DisciplinedAt
<1>9. Disciplined("breakpoint", 3)
  <2>1. /\ Handlers["breakpoint"][3] = <<"unlock", "WRITER">>
        /\ Own["breakpoint"][3] = {"WRITER"} /\ Own["breakpoint"][3 + 1] = {}
    BY <1>1, <1>2, <1>3 DEF o
  <2>2. Orderly("breakpoint", "unlock", "WRITER", {"WRITER"}, {})
    BY <1>6
  <2> QED BY <2>1, <2>2, DisciplinedAt
<1>10. Disciplined("breakpoint", 4)
  <2>1. /\ Handlers["breakpoint"][4] = <<"popf", "IF">>
        /\ Own["breakpoint"][4] = {} /\ Own["breakpoint"][4 + 1] = {}
    BY <1>1, <1>2, <1>3 DEF o
  <2>2. Orderly("breakpoint", "popf", "IF", {}, {})
    BY <1>6
  <2> QED BY <2>1, <2>2, DisciplinedAt
<1>11. ASSUME NEW k \in 1 .. 4 PROVE k = 1 \/ k = 2 \/ k = 3 \/ k = 4
  OBVIOUS
<1> QED BY <1>1, <1>2, <1>3, <1>7, <1>8, <1>9, <1>10, <1>11 DEF o

\* The page fault handler.
LEMMA PageFaultDiscipline ==
  /\ Len(Handlers["page_fault"]) = 5
  /\ \A k \in 1 .. 5 : Disciplined("page_fault", k)
  /\ Own["page_fault"][1] = {} /\ Own["page_fault"][6] = {}
<1> DEFINE c == Page_fault_handler
           o == Own["page_fault"]
<1>1. /\ Len(c) = 5 /\ c[1] = <<"lock", "MAPPER">> /\ c[2] = <<"lock", "FRAME_ALLOCATOR">>
      /\ c[3] = <<"map", "CR2">> /\ c[4] = <<"unlock", "FRAME_ALLOCATOR">>
      /\ c[5] = <<"unlock", "MAPPER">>
  BY DEF Page_fault_handler, With
<1> HIDE DEF c
<1>2. Handlers["page_fault"] = c
  BY DEF Handlers, c
<1>3. /\ o[1] = {} /\ o[2] = {"MAPPER"} /\ o[3] = Statics /\ o[4] = Statics /\ o[5] = {"MAPPER"}
      /\ o[6] = {}
  BY DEF Own
<1> HIDE DEF o
<1>4. /\ "MAPPER" \in Mutexes /\ Floor("page_fault") <= Rank["MAPPER"]
      /\ Below({}, Rank["MAPPER"]) /\ "FRAME_ALLOCATOR" \in Mutexes
      /\ Floor("page_fault") <= Rank["FRAME_ALLOCATOR"]
      /\ Below({"MAPPER"}, Rank["FRAME_ALLOCATOR"])
  BY Ranks DEF Below, Mutexes, Floor
<1>5. /\ {"MAPPER"} = {} \cup {"MAPPER"} /\ Statics = {"MAPPER"} \cup {"FRAME_ALLOCATOR"}
      /\ "SCHEDULER" \notin {"MAPPER"} /\ {"MAPPER"} = Statics \ {"FRAME_ALLOCATOR"}
      /\ "FRAME_ALLOCATOR" \in Statics /\ {} = {"MAPPER"} \ {"MAPPER"}
      /\ "MAPPER" \in {"MAPPER"}
  BY DEF Statics
<1>6. /\ Orderly("page_fault", "lock", "MAPPER", {}, {"MAPPER"})
      /\ Orderly("page_fault", "lock", "FRAME_ALLOCATOR", {"MAPPER"}, Statics)
      /\ Orderly("page_fault", "map", "CR2", Statics, Statics)
      /\ Orderly("page_fault", "unlock", "FRAME_ALLOCATOR", Statics, {"MAPPER"})
      /\ Orderly("page_fault", "unlock", "MAPPER", {"MAPPER"}, {})
  BY <1>4, <1>5, OrderlyOps, OrderlyLock
<1>7. Disciplined("page_fault", 1)
  <2>1. /\ Handlers["page_fault"][1] = <<"lock", "MAPPER">>
        /\ Own["page_fault"][1] = {} /\ Own["page_fault"][1 + 1] = {"MAPPER"}
    BY <1>1, <1>2, <1>3 DEF o
  <2>2. Orderly("page_fault", "lock", "MAPPER", {}, {"MAPPER"})
    BY <1>6
  <2> QED BY <2>1, <2>2, DisciplinedAt
<1>8. Disciplined("page_fault", 2)
  <2>1. /\ Handlers["page_fault"][2] = <<"lock", "FRAME_ALLOCATOR">>
        /\ Own["page_fault"][2] = {"MAPPER"} /\ Own["page_fault"][2 + 1] = Statics
    BY <1>1, <1>2, <1>3 DEF o
  <2>2. Orderly("page_fault", "lock", "FRAME_ALLOCATOR", {"MAPPER"}, Statics)
    BY <1>6
  <2> QED BY <2>1, <2>2, DisciplinedAt
<1>9. Disciplined("page_fault", 3)
  <2>1. /\ Handlers["page_fault"][3] = <<"map", "CR2">>
        /\ Own["page_fault"][3] = Statics /\ Own["page_fault"][3 + 1] = Statics
    BY <1>1, <1>2, <1>3 DEF o
  <2>2. Orderly("page_fault", "map", "CR2", Statics, Statics)
    BY <1>6
  <2> QED BY <2>1, <2>2, DisciplinedAt
<1>10. Disciplined("page_fault", 4)
  <2>1. /\ Handlers["page_fault"][4] = <<"unlock", "FRAME_ALLOCATOR">>
        /\ Own["page_fault"][4] = Statics /\ Own["page_fault"][4 + 1] = {"MAPPER"}
    BY <1>1, <1>2, <1>3 DEF o
  <2>2. Orderly("page_fault", "unlock", "FRAME_ALLOCATOR", Statics, {"MAPPER"})
    BY <1>6
  <2> QED BY <2>1, <2>2, DisciplinedAt
<1>11. Disciplined("page_fault", 5)
  <2>1. /\ Handlers["page_fault"][5] = <<"unlock", "MAPPER">>
        /\ Own["page_fault"][5] = {"MAPPER"} /\ Own["page_fault"][5 + 1] = {}
    BY <1>1, <1>2, <1>3 DEF o
  <2>2. Orderly("page_fault", "unlock", "MAPPER", {"MAPPER"}, {})
    BY <1>6
  <2> QED BY <2>1, <2>2, DisciplinedAt
<1>12. ASSUME NEW k \in 1 .. 5 PROVE k = 1 \/ k = 2 \/ k = 3 \/ k = 4 \/ k = 5
  OBVIOUS
<1> QED BY <1>1, <1>2, <1>3, <1>7, <1>8, <1>9, <1>10, <1>11, <1>12 DEF o

\* The double fault handler.
LEMMA DoubleFaultDiscipline ==
  /\ Len(Handlers["double_fault"]) = 1
  /\ \A k \in 1 .. 1 : Disciplined("double_fault", k)
  /\ Own["double_fault"][1] = {} /\ Own["double_fault"][2] = {}
<1>1. Handlers["double_fault"] = <<<<"panic", "loop">>>>
  BY DEF Handlers, Double_fault_handler
<1>2. Len(Handlers["double_fault"]) = 1 /\ Handlers["double_fault"][1] = <<"panic", "loop">>
  BY <1>1
<1>3. Own["double_fault"][1] = {} /\ Own["double_fault"][2] = {} /\ 1 + 1 = 2
  BY DEF Own
<1>4. Orderly("double_fault", "panic", "loop", {}, {})
  BY OrderlyOps
<1>5. Disciplined("double_fault", 1)
  BY <1>2, <1>3, <1>4, DisciplinedAt
<1>6. ASSUME NEW k \in 1 .. 1 PROVE k = 1
  OBVIOUS
<1> QED BY <1>2, <1>3, <1>5, <1>6

\* Every handler begins and ends without a mutex and is disciplined between.
LEMMA Discipline ==
  ASSUME NEW r \in Active
  PROVE  /\ Len(Handlers[r]) \in Nat \ {0}
         /\ \A k \in 1 .. Len(Handlers[r]) : Disciplined(r, k)
         /\ Own[r][1] = {} /\ Own[r][Len(Handlers[r]) + 1] = {}
<1>1. \/ r = "timer" \/ r = "keyboard" \/ r = "breakpoint" \/ r = "page_fault"
      \/ r = "double_fault"
  BY DEF Active
<1>2. CASE r = "timer"
  <2>1. Len(Handlers[r]) + 1 = 7
    BY <1>2, TimerDiscipline
  <2> QED BY <1>2, <2>1, TimerDiscipline
<1>3. CASE r = "keyboard"
  <2>1. Len(Handlers[r]) + 1 = 11
    BY <1>3, KeyboardDiscipline
  <2> QED BY <1>3, <2>1, KeyboardDiscipline
<1>4. CASE r = "breakpoint"
  <2>1. Len(Handlers[r]) + 1 = 5
    BY <1>4, BreakpointDiscipline
  <2> QED BY <1>4, <2>1, BreakpointDiscipline
<1>5. CASE r = "page_fault"
  <2>1. Len(Handlers[r]) + 1 = 6
    BY <1>5, PageFaultDiscipline
  <2> QED BY <1>5, <2>1, PageFaultDiscipline
<1>6. CASE r = "double_fault"
  <2>1. Len(Handlers[r]) + 1 = 2
    BY <1>6, DoubleFaultDiscipline
  <2> QED BY <1>6, <2>1, DoubleFaultDiscipline
<1> QED BY <1>1, <1>2, <1>3, <1>4, <1>5, <1>6

-----------------------------------------------------------------------------
(***************************************************************************)
(* The inductive invariant: kernel_main follows its plan, alone or below   *)
(* one handler, which holds its own mutexes besides and nothing else that  *)
(* kernel_main would notice, except that a page may have been mapped.      *)
(***************************************************************************)
Frames == [routine : {"main"} \cup Active, at : Nat, ifl : BOOLEAN, saved : BOOLEAN]

MainCode  == Kernel_main[program]
MainState == Plan(program)[stack[1].at]
Faulting  == stack[1].at \in 1 .. Len(MainCode) /\ MainCode[stack[1].at][1] = "touch"
Page      == MainCode[stack[1].at][2]

Typed ==
  /\ program \in DOMAIN Kernel_main
  /\ cpu \in [cs : {"loader", "kernel"}, idt : {"none", "loader", "kernel"}, ifl : BOOLEAN]
  /\ pic \in [remapped : BOOLEAN, irr : SUBSET Lines, isr : SUBSET Lines]
  /\ stack \in Seq(Frames) /\ Depth \in 1 .. 2

OnPlan ==
  /\ stack[1].routine = "main" /\ stack[1].at \in 1 .. Len(MainCode) + 1
  /\ stack[1].saved = MainState.saved
  /\ cpu.cs = MainState.cs /\ cpu.idt = MainState.idt /\ pic.remapped = MainState.remapped
  /\ \/ ready = MainState.ready
     \/ Faulting /\ ready = MainState.ready \cup {Page}

Alone == cpu.ifl = MainState.ifl /\ held = MainState.held

Handled(f, own) ==
  /\ f.routine \in Active /\ f.at \in 1 .. Len(Handlers[f.routine]) + 1
  /\ ~cpu.ifl /\ ~f.saved /\ f.ifl = MainState.ifl
  /\ held = MainState.held \cup own /\ MainState.held \cap own = {}
  /\ Below(MainState.held, Floor(f.routine))
  /\ f.routine = "page_fault" => Faulting /\ Statics \subseteq ready
  /\ f.routine = "double_fault" => "card" \in pic.isr
  /\ "SCHEDULER" \in own => "list" \in ready

PlanInv ==
  /\ Typed /\ OnPlan
  /\ Depth = 1 => Alone
  /\ Depth = 2 => Handled(stack[2], Own[stack[2].routine][stack[2].at])

\* What the invariant says of the plan of the program that runs.
LEMMA PlanFacts ==
  ASSUME PlanInv
  PROVE  /\ Len(MainCode) \in Nat
         /\ \A i \in 1 .. Len(MainCode) + 1 : Plan(program)[i] \in States /\ Guarded(Plan(program)[i])
         /\ \A i \in 1 .. Len(MainCode) :
              /\ MainCode[i] \in Instrs /\ Sound(MainCode[i], Plan(program)[i])
              /\ Plan(program)[i + 1] = Effect(MainCode[i], Plan(program)[i])
         /\ MainState \in States /\ Guarded(MainState)
<1>1. IsPlan(MainCode, Plan(program))
  BY PlanExists DEF PlanInv, Typed, MainCode
<1>2. Walk(MainCode, Plan(program))
  BY <1>1 DEF IsPlan
<1>3. MainCode \in Seq(Instrs) /\ Len(MainCode) \in Nat
  BY <1>2, LenProperties DEF Walk
<1>4. \A i \in 1 .. Len(MainCode) : MainCode[i] \in Instrs
  BY <1>3, ElementOfSeq
<1>5. \A i \in 1 .. Len(MainCode) + 1 : Plan(program)[i] \in States /\ Guarded(Plan(program)[i])
  BY <1>2 DEF Walk
<1>6. stack[1].at \in 1 .. Len(MainCode) + 1
  BY DEF PlanInv, OnPlan
<1> QED BY <1>2, <1>3, <1>4, <1>5, <1>6 DEF Walk, MainState

\* kernel_main alone executes the instruction of its plan.
LEMMA MainInstr ==
  ASSUME PlanInv, Depth = 1, NEW op, At(op)
  PROVE  /\ stack[1].at \in 1 .. Len(MainCode) /\ Top = stack[1]
         /\ MainCode[stack[1].at][1] = op /\ MainCode[stack[1].at][2] = Arg
         /\ op \in Ops /\ Arg \in Args
         /\ Sound(MainCode[stack[1].at], MainState)
         /\ Plan(program)[stack[1].at + 1] = Effect(MainCode[stack[1].at], MainState)
         /\ Plan(program)[stack[1].at + 1] \in States
<1> DEFINE i == stack[1].at
<1>1. /\ Top = stack[1] /\ Code(Top.routine) = MainCode /\ i \in 1 .. Len(MainCode) + 1
  BY DEF Top, Code, MainCode, PlanInv, OnPlan
<1>2. ~Ended /\ Instr(Top)[1] = op /\ Instr(Top)[2] = Arg
  BY DEF At, Arg
<1>3. i <= Len(MainCode) /\ Instr(Top) = MainCode[i]
  BY <1>1, <1>2, PlanFacts DEF Ended, Instr
<1>4. i \in 1 .. Len(MainCode) /\ i + 1 \in 1 .. Len(MainCode) + 1
  BY <1>1, <1>3, PlanFacts
<1>5. /\ MainCode[i] \in Instrs /\ Sound(MainCode[i], Plan(program)[i])
      /\ Plan(program)[i + 1] = Effect(MainCode[i], Plan(program)[i])
      /\ Plan(program)[i + 1] \in States
  BY <1>4, PlanFacts
<1>6. op \in Ops /\ Arg \in Args
  BY <1>2, <1>3, <1>5 DEF Instrs
<1> QED BY <1>1, <1>2, <1>3, <1>4, <1>5, <1>6 DEF MainState

\* kernel_main alone goes on to the next state of its plan.
LEMMA MainMoves ==
  ASSUME PlanInv, Depth = 1, stack[1].at \in 1 .. Len(MainCode), program' = program,
         cpu' \in [cs : {"loader", "kernel"}, idt : {"none", "loader", "kernel"}, ifl : BOOLEAN],
         pic' \in [remapped : BOOLEAN, irr : SUBSET Lines, isr : SUBSET Lines],
         stack' \in Seq(Frames), Len(stack') = 1,
         stack'[1].routine = "main", stack'[1].at = stack[1].at + 1,
         NEW t, t = Plan(program)[stack[1].at + 1],
         stack'[1].saved = t.saved, cpu'.cs = t.cs, cpu'.idt = t.idt, cpu'.ifl = t.ifl,
         pic'.remapped = t.remapped, ready' = t.ready, held' = t.held
  PROVE  PlanInv'
<1>1. Len(MainCode) \in Nat /\ MainCode' = MainCode
  BY PlanFacts DEF MainCode
<1>2. stack'[1].at \in 1 .. Len(MainCode') + 1 /\ MainState' = t
  BY <1>1 DEF MainState
<1>3. Typed'
  BY DEF Typed, Depth, PlanInv
<1>4. OnPlan' /\ Alone'
  BY <1>2 DEF OnPlan, Alone
<1>5. Depth' = 1
  BY DEF Depth
<1> QED BY <1>3, <1>4, <1>5 DEF PlanInv

\* The activation on top goes on to another instruction.
LEMMA Advanced ==
  ASSUME PlanInv, NEW n \in Nat, Advance(n)
  PROVE  /\ stack' \in Seq(Frames) /\ Len(stack') = Depth
         /\ stack'[Depth] = [Top EXCEPT !.at = @ + n]
         /\ Depth = 2 => stack'[1] = stack[1]
         /\ Top \in Frames
<1>1. stack \in Seq(Frames) /\ Depth \in 1 .. 2 /\ Len(stack) = Depth
  BY DEF PlanInv, Typed, Depth
<1>2. Depth \in 1 .. Len(stack) /\ Top \in Frames
  BY <1>1, ElementOfSeq DEF Top
<1> DEFINE g == [Top EXCEPT !.at = @ + n]
<1>3. g \in Frames
  BY <1>2 DEF Frames
<1>4. stack' = [stack EXCEPT ![Depth] = g]
  BY DEF Advance, Top
<1> HIDE DEF g
<1>5. stack' \in Seq(Frames) /\ Len(stack') = Len(stack)
  BY <1>1, <1>2, <1>3, <1>4, ExceptSeq
<1>6. stack'[Depth] = g /\ (Depth = 2 => stack'[1] = stack[1])
  BY <1>1, <1>2, <1>3, <1>4, ExceptSeq
<1> QED BY <1>1, <1>2, <1>5, <1>6 DEF g

\* The activation on top saves the interrupt flag, and goes on.
LEMMA FlagSaved ==
  ASSUME PlanInv, Disable
  PROVE  /\ stack' \in Seq(Frames) /\ Len(stack') = Depth
         /\ stack'[Depth].routine = Top.routine /\ stack'[Depth].at = Top.at + 1
         /\ stack'[Depth].ifl = Top.ifl /\ stack'[Depth].saved = cpu.ifl
         /\ Depth = 2 => stack'[1] = stack[1]
<1>1. stack \in Seq(Frames) /\ Depth \in 1 .. 2 /\ Len(stack) = Depth
  BY DEF PlanInv, Typed, Depth
<1>2. Depth \in 1 .. Len(stack) /\ Top \in Frames
  BY <1>1, ElementOfSeq DEF Top
<1>3. cpu.ifl \in BOOLEAN
  BY DEF PlanInv, Typed
<1> DEFINE v == cpu.ifl
           g == [Top EXCEPT !.at = @ + 1, !.saved = v]
<1>4. stack' = [stack EXCEPT ![Depth] = g]
  BY DEF Disable, Top
<1>5. v \in BOOLEAN
  BY <1>3
<1> HIDE DEF v
<1>6. /\ g.routine = Top.routine /\ g.at = Top.at + 1 /\ g.ifl = Top.ifl /\ g.saved = v
  BY <1>2 DEF Frames
<1>7. DOMAIN g = {"routine", "at", "ifl", "saved"}
  BY <1>2 DEF Frames
<1>8. g = [x \in {"routine", "at", "ifl", "saved"} |-> g[x]]
  BY <1>7
<1> HIDE DEF g
<1>9. g \in Frames
  BY <1>2, <1>5, <1>6, <1>7, <1>8 DEF Frames
<1>10. stack' \in Seq(Frames) /\ Len(stack') = Len(stack)
  BY <1>1, <1>2, <1>4, <1>9, ExceptSeq
<1>11. stack'[Depth] = g /\ (Depth = 2 => stack'[1] = stack[1])
  BY <1>1, <1>2, <1>4, <1>9, ExceptSeq
<1> QED BY <1>1, <1>6, <1>10, <1>11 DEF v

\* kernel_main alone: the machine is in the state of its plan.
LEMMA MainFacts ==
  ASSUME PlanInv, Depth = 1, NEW op, At(op)
  PROVE  /\ MainState.cs = cpu.cs /\ MainState.idt = cpu.idt /\ MainState.ifl = cpu.ifl
         /\ MainState.saved = stack[1].saved /\ MainState.remapped = pic.remapped
         /\ MainState.held = held
         /\ op # "touch" => MainState.ready = ready
         /\ op = "touch" => ready = MainState.ready \/ ready = MainState.ready \cup {Arg}
         /\ MainState \in States /\ Guarded(MainState)
<1>1. MainCode[stack[1].at][1] = op /\ MainCode[stack[1].at][2] = Arg
  BY MainInstr
<1>2. ready = MainState.ready \/ (Faulting /\ ready = MainState.ready \cup {Page})
  BY DEF PlanInv, OnPlan
<1>3. (Faulting => op = "touch") /\ Page = Arg
  BY <1>1 DEF Faulting, Page
<1>4. /\ MainState.cs = cpu.cs /\ MainState.idt = cpu.idt /\ MainState.ifl = cpu.ifl
      /\ MainState.saved = stack[1].saved /\ MainState.remapped = pic.remapped
      /\ MainState.held = held
  BY DEF PlanInv, OnPlan, Alone
<1> QED BY <1>2, <1>3, <1>4, PlanFacts

\* kernel_main alone advances.
LEMMA MainAdvanced ==
  ASSUME PlanInv, Depth = 1, Advance(1)
  PROVE  /\ stack' \in Seq(Frames) /\ Len(stack') = 1
         /\ stack'[1].routine = "main" /\ stack'[1].at = stack[1].at + 1
         /\ stack'[1].saved = stack[1].saved
<1>1. /\ stack' \in Seq(Frames) /\ Len(stack') = 1 /\ stack'[1] = [Top EXCEPT !.at = @ + 1]
      /\ Top \in Frames
  BY Advanced
<1>2. Top = stack[1] /\ stack[1].routine = "main"
  BY DEF Top, PlanInv, OnPlan
<1> QED BY <1>1, <1>2 DEF Frames

\* kernel_main alone executes an instruction to its end.
LEMMA MainStep ==
  ASSUME PlanInv, Depth = 1,
         \/ Load_gdt \/ Load_idt \/ Remap \/ Enable \/ Disable \/ Restore
         \/ Lock \/ Unlock \/ Assign \/ Access
  PROVE  PlanInv'
<1> DEFINE s == MainState
           t == Plan(program)[stack[1].at + 1]
           ins == MainCode[stack[1].at]
<1>1. /\ program' = program
      /\ cpu \in [cs : {"loader", "kernel"}, idt : {"none", "loader", "kernel"}, ifl : BOOLEAN]
      /\ pic \in [remapped : BOOLEAN, irr : SUBSET Lines, isr : SUBSET Lines]
  BY DEF PlanInv, Typed, Load_gdt, Load_idt, Remap, Enable, Disable, Restore, Lock, Unlock,
         Assign, Access
<1> HIDE DEF s, t, ins
<1>2. ASSUME NEW op, At(op)
      PROVE  /\ stack[1].at \in 1 .. Len(MainCode) /\ ins[1] = op /\ ins[2] = Arg
             /\ t = Effect(ins, s) /\ t = Plan(program)[stack[1].at + 1] /\ Top = stack[1]
  BY <1>2, MainInstr DEF s, t, ins
<1>3. ASSUME NEW op, At(op)
      PROVE  /\ s.cs = cpu.cs /\ s.idt = cpu.idt /\ s.ifl = cpu.ifl /\ s.saved = stack[1].saved
             /\ s.remapped = pic.remapped /\ s.held = held
             /\ op # "touch" => s.ready = ready
             /\ op = "touch" => ready = s.ready \/ ready = s.ready \cup {Arg}
             /\ s \in States
  BY <1>3, MainFacts DEF s
<1> DEFINE Agrees ==
             /\ cpu'.cs = t.cs /\ cpu'.idt = t.idt /\ cpu'.ifl = t.ifl
             /\ pic'.remapped = t.remapped /\ ready' = t.ready /\ held' = t.held
<1>4. ASSUME Advance(1), \E op : At(op), t.saved = stack[1].saved, Agrees,
              cpu' \in [cs : {"loader", "kernel"}, idt : {"none", "loader", "kernel"}, ifl : BOOLEAN],
              pic' \in [remapped : BOOLEAN, irr : SUBSET Lines, isr : SUBSET Lines]
       PROVE  PlanInv'
  <2>1. stack[1].at \in 1 .. Len(MainCode) /\ t = Plan(program)[stack[1].at + 1]
    BY <1>2, <1>4
  <2>2. /\ stack' \in Seq(Frames) /\ Len(stack') = 1
        /\ stack'[1].routine = "main" /\ stack'[1].at = stack[1].at + 1
        /\ stack'[1].saved = t.saved
    BY <1>4, MainAdvanced
  <2> QED BY <1>1, <1>4, <2>1, <2>2, MainMoves
<1>5. CASE Load_gdt
  <2>1. At("lgdt") /\ Advance(1) /\ cpu' = [cpu EXCEPT !.cs = "kernel"] /\ UNCHANGED <<pic, held, ready>>
    BY <1>5 DEF Load_gdt
  <2>2. t = [s EXCEPT !.cs = "kernel"]
    BY <1>2, <2>1 DEF Effect
  <2>3. t.saved = stack[1].saved /\ Agrees
    BY <1>1, <1>3, <2>1, <2>2 DEF States
  <2>4. cpu' \in [cs : {"loader", "kernel"}, idt : {"none", "loader", "kernel"}, ifl : BOOLEAN]
    BY <1>1, <2>1
  <2> QED BY <1>1, <1>4, <2>1, <2>3, <2>4
<1>6. CASE Load_idt
  <2>1. At("lidt") /\ Advance(1) /\ cpu' = [cpu EXCEPT !.idt = cpu.cs] /\ UNCHANGED <<pic, held, ready>>
    BY <1>6 DEF Load_idt
  <2>2. t = [s EXCEPT !.idt = s.cs]
    BY <1>2, <2>1 DEF Effect
  <2>3. t.saved = stack[1].saved /\ Agrees
    BY <1>1, <1>3, <2>1, <2>2 DEF States
  <2>4. cpu' \in [cs : {"loader", "kernel"}, idt : {"none", "loader", "kernel"}, ifl : BOOLEAN]
    BY <1>1, <2>1
  <2> QED BY <1>1, <1>4, <2>1, <2>3, <2>4
<1>7. CASE Remap
  <2>1. At("remap") /\ Advance(1) /\ pic' = [pic EXCEPT !.remapped = TRUE] /\ UNCHANGED <<cpu, held, ready>>
    BY <1>7 DEF Remap
  <2>2. t = [s EXCEPT !.remapped = TRUE]
    BY <1>2, <2>1 DEF Effect
  <2>3. t.saved = stack[1].saved /\ Agrees
    BY <1>1, <1>3, <2>1, <2>2 DEF States
  <2>4. pic' \in [remapped : BOOLEAN, irr : SUBSET Lines, isr : SUBSET Lines]
    BY <1>1, <2>1
  <2> QED BY <1>1, <1>4, <2>1, <2>3, <2>4
<1>8. CASE Enable
  <2>1. At("sti") /\ Advance(1) /\ cpu' = [cpu EXCEPT !.ifl = TRUE] /\ UNCHANGED <<pic, held, ready>>
    BY <1>8 DEF Enable
  <2>2. t = [s EXCEPT !.ifl = TRUE]
    BY <1>2, <2>1 DEF Effect
  <2>3. t.saved = stack[1].saved /\ Agrees
    BY <1>1, <1>3, <2>1, <2>2 DEF States
  <2>4. cpu' \in [cs : {"loader", "kernel"}, idt : {"none", "loader", "kernel"}, ifl : BOOLEAN]
    BY <1>1, <2>1
  <2> QED BY <1>1, <1>4, <2>1, <2>3, <2>4
<1>9. CASE Disable
  <2>1. /\ At("cli") /\ stack' = [stack EXCEPT ![Depth].at = @ + 1, ![Depth].saved = cpu.ifl]
        /\ cpu' = [cpu EXCEPT !.ifl = FALSE] /\ UNCHANGED <<pic, held, ready>>
    BY <1>9 DEF Disable
  <2>2. t = [s EXCEPT !.ifl = FALSE, !.saved = s.ifl]
    BY <1>2, <2>1 DEF Effect
  <2>3. t.saved = cpu.ifl /\ Agrees
    BY <1>1, <1>3, <2>1, <2>2 DEF States
  <2>4. cpu' \in [cs : {"loader", "kernel"}, idt : {"none", "loader", "kernel"}, ifl : BOOLEAN]
    BY <1>1, <2>1
  <2>5. /\ stack' \in Seq(Frames) /\ Len(stack') = 1
        /\ stack'[1].routine = "main" /\ stack'[1].at = stack[1].at + 1 /\ stack'[1].saved = cpu.ifl
    <3>1. Top.routine = "main" /\ Top.at = stack[1].at
      BY <1>2, <2>1 DEF PlanInv, OnPlan
    <3> QED BY <1>9, <3>1, FlagSaved
  <2> QED BY <1>1, <1>2, <2>1, <2>3, <2>4, <2>5, MainMoves
<1>10. CASE Restore
  <2>1. At("popf") /\ Advance(1) /\ cpu' = [cpu EXCEPT !.ifl = Top.saved] /\ UNCHANGED <<pic, held, ready>>
    BY <1>10 DEF Restore
  <2>2. t = [s EXCEPT !.ifl = s.saved]
    BY <1>2, <2>1 DEF Effect
  <2>3. Top.saved = s.saved /\ s.saved \in BOOLEAN
    BY <1>2, <1>3, <2>1 DEF States
  <2>4. t.saved = stack[1].saved /\ Agrees
    BY <1>1, <1>3, <2>1, <2>2, <2>3 DEF States
  <2>5. cpu' \in [cs : {"loader", "kernel"}, idt : {"none", "loader", "kernel"}, ifl : BOOLEAN]
    BY <1>1, <2>1, <2>3
  <2> QED BY <1>1, <1>4, <2>1, <2>4, <2>5
<1>11. CASE Lock
  <2>1. At("lock") /\ Advance(1) /\ held' = held \cup {Arg} /\ UNCHANGED <<cpu, pic, ready>>
    BY <1>11 DEF Lock
  <2>2. t = [s EXCEPT !.held = @ \cup {Arg}]
    BY <1>2, <2>1 DEF Effect
  <2>3. t.saved = stack[1].saved /\ Agrees
    BY <1>1, <1>3, <2>1, <2>2 DEF States
  <2> QED BY <1>1, <1>4, <2>1, <2>3
<1>12. CASE Unlock
  <2>1. At("unlock") /\ Advance(1) /\ held' = held \ {Arg} /\ UNCHANGED <<cpu, pic, ready>>
    BY <1>12 DEF Unlock
  <2>2. t = [s EXCEPT !.held = @ \ {Arg}]
    BY <1>2, <2>1 DEF Effect
  <2>3. t.saved = stack[1].saved /\ Agrees
    BY <1>1, <1>3, <2>1, <2>2 DEF States
  <2> QED BY <1>1, <1>4, <2>1, <2>3
<1>13. CASE Assign
  <2>1. At("fill") /\ Advance(1) /\ ready' = ready \cup {Arg} /\ UNCHANGED <<cpu, pic, held>>
    BY <1>13 DEF Assign
  <2>2. t = [s EXCEPT !.ready = @ \cup {Arg}]
    BY <1>2, <2>1 DEF Effect
  <2>3. t.saved = stack[1].saved /\ Agrees
    BY <1>1, <1>3, <2>1, <2>2 DEF States
  <2> QED BY <1>1, <1>4, <2>1, <2>3
<1>14. CASE Access
  <2>1. At("touch") /\ Advance(1) /\ UNCHANGED <<cpu, pic, held>> /\ ready' = ready \cup {Arg}
    BY <1>14 DEF Access
  <2>2. t = [s EXCEPT !.ready = @ \cup {Arg}]
    BY <1>2, <2>1 DEF Effect
  <2>3. ready' = s.ready \cup {Arg}
    BY <1>3, <2>1
  <2>4. t.saved = stack[1].saved /\ Agrees
    BY <1>1, <1>3, <2>1, <2>2, <2>3 DEF States
  <2> QED BY <1>1, <1>4, <2>1, <2>4
<1> QED BY <1>5, <1>6, <1>7, <1>8, <1>9, <1>10, <1>11, <1>12, <1>13, <1>14

\* What the invariant says of kernel_main and of the handler above it.
LEMMA HandlerFacts ==
  ASSUME PlanInv, Depth = 2
  PROVE  /\ Top = stack[2] /\ Top.routine \in Active /\ Code(Top.routine) = Handlers[Top.routine]
         /\ Len(Handlers[Top.routine]) \in Nat \ {0}
         /\ Top.at \in 1 .. Len(Handlers[Top.routine]) + 1
         /\ Handled(Top, Own[Top.routine][Top.at])
         /\ MainState \in States /\ Guarded(MainState) /\ MainState.held \in SUBSET Mutexes
<1>1. Top = stack[2] /\ Handled(Top, Own[Top.routine][Top.at])
  BY DEF Top, PlanInv
<1>2. Top.routine \in Active /\ Top.at \in 1 .. Len(Handlers[Top.routine]) + 1
  BY <1>1 DEF Handled
<1>3. Code(Top.routine) = Handlers[Top.routine]
  BY <1>2 DEF Code, Active
<1>4. MainState.held \in SUBSET Mutexes
  BY PlanFacts DEF States
<1> QED BY <1>1, <1>2, <1>3, <1>4, Discipline, PlanFacts

\* A handler executes a disciplined instruction.
LEMMA HandlerInstr ==
  ASSUME PlanInv, Depth = 2, NEW op, At(op)
  PROVE  /\ Top.at \in 1 .. Len(Handlers[Top.routine])
         /\ Disciplined(Top.routine, Top.at)
         /\ Orderly(Top.routine, op, Arg, Own[Top.routine][Top.at], Own[Top.routine][Top.at + 1])
         /\ Handlers[Top.routine][Top.at][1] = op
<1>1. ~Ended /\ Instr(Top)[1] = op /\ Instr(Top)[2] = Arg
  BY DEF At, Arg
<1>2. Top.at \in 1 .. Len(Handlers[Top.routine]) /\ Instr(Top) = Handlers[Top.routine][Top.at]
  BY <1>1, HandlerFacts DEF Ended, Instr
<1>3. Disciplined(Top.routine, Top.at)
  BY <1>2, HandlerFacts, Discipline
<1> QED BY <1>1, <1>2, <1>3 DEF Disciplined

\* A handler goes on, and leaves kernel_main where it is.
LEMMA HandlerMoves ==
  ASSUME PlanInv, Depth = 2, program' = program,
         stack' \in Seq(Frames), Len(stack') = 2, stack'[1] = stack[1],
         NEW r, r = Top.routine, stack'[2].routine = r, stack'[2].ifl = Top.ifl,
         ~stack'[2].saved, stack'[2].at \in 1 .. Len(Handlers[r]) + 1,
         cpu' = cpu, pic' \in [remapped : BOOLEAN, irr : SUBSET Lines, isr : SUBSET Lines],
         pic'.remapped = pic.remapped, "card" \in pic.isr => "card" \in pic'.isr,
         ready' = ready \/ (Faulting /\ ready' = ready \cup {Page}),
         NEW own, own = Own[r][stack'[2].at],
         held' = MainState.held \cup own, MainState.held \cap own = {},
         "SCHEDULER" \in own => "list" \in ready
  PROVE  PlanInv'
<1>1. /\ MainCode' = MainCode /\ MainState' = MainState /\ Faulting' = Faulting /\ Page' = Page
  BY DEF MainCode, MainState, Faulting, Page
<1>2. Typed'
  BY DEF Typed, Depth, PlanInv
<1>3. ready' = MainState.ready \/ (Faulting /\ ready' = MainState.ready \cup {Page})
  BY DEF PlanInv, OnPlan
<1>4. OnPlan'
  BY <1>1, <1>3 DEF OnPlan, PlanInv
<1>5. /\ r \in Active /\ ~cpu.ifl /\ Top.ifl = MainState.ifl /\ Below(MainState.held, Floor(r))
      /\ r = "page_fault" => Faulting /\ Statics \subseteq ready
      /\ r = "double_fault" => "card" \in pic'.isr
  BY HandlerFacts DEF Handled
<1>6. ready \subseteq ready'
  OBVIOUS
<1>7. r = "page_fault" => Faulting' /\ Statics \subseteq ready'
  BY <1>1, <1>5, <1>6
<1>8. "SCHEDULER" \in own => "list" \in ready'
  BY <1>6
<1>9. Handled(stack[2], own)'
  BY <1>1, <1>5, <1>7, <1>8 DEF Handled
<1>10. Depth' = 2
  BY DEF Depth
<1>11. Handled(stack[2], Own[stack[2].routine][stack[2].at])'
  BY <1>9
<1> QED BY <1>2, <1>4, <1>10, <1>11 DEF PlanInv

\* A handler advances.
LEMMA HandlerAdvanced ==
  ASSUME PlanInv, Depth = 2, NEW n \in Nat, Advance(n)
  PROVE  /\ stack' \in Seq(Frames) /\ Len(stack') = 2 /\ stack'[1] = stack[1]
         /\ stack'[2].routine = Top.routine /\ stack'[2].ifl = Top.ifl
         /\ stack'[2].saved = Top.saved /\ stack'[2].at = Top.at + n
<1>1. /\ stack' \in Seq(Frames) /\ Len(stack') = 2 /\ stack'[2] = [Top EXCEPT !.at = @ + n]
      /\ stack'[1] = stack[1] /\ Top \in Frames
  BY Advanced
<1> QED BY <1>1 DEF Frames

\* A handler executes an instruction.
LEMMA HandlerStep ==
  ASSUME PlanInv, Depth = 2,
         \/ Disable \/ Restore \/ Lock \/ Try_lock \/ Unlock \/ Access \/ Map \/ Eoi
  PROVE  PlanInv'
<1> DEFINE r == Top.routine
           k == Top.at
           s == MainState
           own == Own[r][k]
           next == Own[r][k + 1]
<1>1. /\ program' = program
      /\ cpu \in [cs : {"loader", "kernel"}, idt : {"none", "loader", "kernel"}, ifl : BOOLEAN]
      /\ pic \in [remapped : BOOLEAN, irr : SUBSET Lines, isr : SUBSET Lines]
  BY DEF PlanInv, Typed, Disable, Restore, Lock, Try_lock, Unlock, Access, Map, Eoi
<1>2. /\ r \in Active /\ Len(Handlers[r]) \in Nat /\ k \in 1 .. Len(Handlers[r]) + 1
      /\ s.held \in SUBSET Mutexes
  BY HandlerFacts
<1>3. /\ ~cpu.ifl /\ ~Top.saved /\ held = s.held \cup own /\ s.held \cap own = {}
      /\ Below(s.held, Floor(r)) /\ (r = "page_fault" => Faulting /\ Statics \subseteq ready)
      /\ "SCHEDULER" \in own => "list" \in ready
  BY HandlerFacts DEF Handled
<1>4. ASSUME NEW op, At(op)
      PROVE  Orderly(r, op, Arg, own, next) /\ k + 1 \in 1 .. Len(Handlers[r]) + 1
  BY <1>2, <1>4, HandlerInstr
<1> HIDE DEF s, own, next
<1>5. ASSUME Advance(1), \E op : At(op), cpu' = cpu,
             pic' \in [remapped : BOOLEAN, irr : SUBSET Lines, isr : SUBSET Lines],
             pic'.remapped = pic.remapped, "card" \in pic.isr => "card" \in pic'.isr,
             ready' = ready \/ (Faulting /\ ready' = ready \cup {Page}),
             held' = s.held \cup next, s.held \cap next = {}, "SCHEDULER" \in next => "list" \in ready
      PROVE  PlanInv'
  <2>1. k + 1 \in 1 .. Len(Handlers[r]) + 1
    BY <1>4, <1>5
  <2>2. /\ stack' \in Seq(Frames) /\ Len(stack') = 2 /\ stack'[1] = stack[1]
        /\ stack'[2].routine = r /\ stack'[2].ifl = Top.ifl
        /\ ~stack'[2].saved /\ stack'[2].at = k + 1
    BY <1>3, <1>5, HandlerAdvanced
  <2>3. next = Own[r][stack'[2].at]
    BY <2>2 DEF next
  <2> QED BY <1>1, <1>5, <2>1, <2>2, <2>3, HandlerMoves DEF s
<1>6. CASE Disable
  <2>1. At("cli") /\ cpu' = [cpu EXCEPT !.ifl = FALSE] /\ UNCHANGED <<pic, held, ready>>
    BY <1>6 DEF Disable
  <2>2. cpu' = cpu
    BY <1>1, <1>3, <2>1
  <2>3. next = own /\ k + 1 \in 1 .. Len(Handlers[r]) + 1
    BY <1>4, <2>1 DEF Orderly
  <2>4. /\ stack' \in Seq(Frames) /\ Len(stack') = 2 /\ stack'[1] = stack[1]
        /\ stack'[2].routine = r /\ stack'[2].ifl = Top.ifl
        /\ ~stack'[2].saved /\ stack'[2].at = k + 1
    BY <1>3, <1>6, FlagSaved
  <2>5. next = Own[r][stack'[2].at]
    BY <2>4 DEF next
  <2>6. held' = s.held \cup next /\ s.held \cap next = {} /\ ("SCHEDULER" \in next => "list" \in ready)
    BY <1>3, <2>1, <2>3
  <2> QED BY <1>1, <2>1, <2>2, <2>3, <2>4, <2>5, <2>6, HandlerMoves DEF s
<1>7. CASE Restore
  <2>1. At("popf") /\ Advance(1) /\ cpu' = [cpu EXCEPT !.ifl = Top.saved] /\ UNCHANGED <<pic, held, ready>>
    BY <1>7 DEF Restore
  <2>2. Top.saved = FALSE
    <3>1. Top \in Frames
      BY <2>1, Advanced
    <3> QED BY <1>3, <3>1 DEF Frames
  <2>3. cpu.ifl = FALSE
    BY <1>1, <1>3
  <2>4. cpu' = cpu
    BY <1>1, <2>1, <2>2, <2>3
  <2>5. next = own
    BY <1>4, <2>1 DEF Orderly
  <2> QED BY <1>1, <1>3, <1>5, <2>1, <2>4, <2>5
<1>8. CASE Lock
  <2>1. At("lock") /\ Advance(1) /\ held' = held \cup {Arg} /\ UNCHANGED <<cpu, pic, ready>>
    BY <1>8 DEF Lock
  <2>2. /\ Arg \in Mutexes /\ Floor(r) <= Rank[Arg] /\ next = own \cup {Arg}
        /\ "SCHEDULER" \notin own
    BY <1>4, <2>1 DEF Orderly
  <2>3. Arg \notin s.held
    <3>1. Floor(r) \in Nat /\ Rank[Arg] \in Nat
      BY <2>2, Ranks DEF Floor
    <3>2. Below(s.held, Rank[Arg])
      BY <1>2, <1>3, <2>2, <3>1, BelowMore
    <3> QED BY <1>2, <2>2, <3>2, BelowIsFree
  <2>4. Arg # "SCHEDULER"
    BY <2>2, Ranks DEF Floor
  <2>5. held' = s.held \cup next /\ s.held \cap next = {} /\ ("SCHEDULER" \notin next)
    BY <1>3, <2>1, <2>2, <2>3, <2>4
  <2> QED BY <1>1, <1>5, <2>1, <2>5
<1>9. CASE Try_lock
  <2>1. /\ At("try_lock") /\ UNCHANGED <<cpu, pic, ready>>
        /\ \/ Arg \notin held /\ "processes" \in ready /\ Advance(1) /\ held' = held \cup {Arg}
           \/ Advance(3) /\ held' = held
    BY <1>9 DEF Try_lock
  <2>2. Arg = "SCHEDULER" /\ own = {} /\ next = {"SCHEDULER"}
    BY <1>4, <2>1 DEF Orderly
  <2>3. CASE Arg \notin held /\ "processes" \in ready /\ Advance(1) /\ held' = held \cup {Arg}
    <3>1. held' = s.held \cup next /\ s.held \cap next = {}
      BY <1>3, <2>2, <2>3
    <3>2. "list" \in ready
      <4>1. "processes" \in s.ready => "list" \in s.ready
        BY HandlerFacts DEF Guarded, s
      <4>2. ready = s.ready \/ (Faulting /\ ready = s.ready \cup {Page})
        BY DEF PlanInv, OnPlan, s
      <4>3. Faulting => Page # "processes"
        BY PlanFacts DEF Faulting, Page, Sound
      <4> QED BY <2>3, <4>1, <4>2, <4>3
    <3> QED BY <1>1, <1>5, <2>1, <2>3, <3>1, <3>2
  <2>4. CASE Advance(3) /\ held' = held
    <3>1. Disciplined(r, k) /\ Handlers[r][k][1] = "try_lock"
      BY <2>1, HandlerInstr
    <3>2. k + 3 \in 1 .. Len(Handlers[r]) + 1 /\ Own[r][k + 3] = {}
      BY <3>1 DEF Disciplined
    <3>3. /\ stack' \in Seq(Frames) /\ Len(stack') = 2 /\ stack'[1] = stack[1]
          /\ stack'[2].routine = r /\ stack'[2].ifl = Top.ifl
          /\ ~stack'[2].saved /\ stack'[2].at = k + 3
      BY <1>3, <2>4, HandlerAdvanced
    <3>4. Own[r][stack'[2].at] = {}
      BY <3>2, <3>3
    <3>5. held' = s.held \cup {} /\ s.held \cap {} = {}
      BY <1>3, <2>2, <2>4
    <3> QED BY <1>1, <2>1, <3>2, <3>3, <3>4, <3>5, HandlerMoves DEF s
  <2> QED BY <2>1, <2>3, <2>4
<1>10. CASE Unlock
  <2>1. At("unlock") /\ Advance(1) /\ held' = held \ {Arg} /\ UNCHANGED <<cpu, pic, ready>>
    BY <1>10 DEF Unlock
  <2>2. Arg \in own /\ next = own \ {Arg}
    BY <1>4, <2>1 DEF Orderly
  <2>3. held' = s.held \cup next /\ s.held \cap next = {} /\ next \subseteq own
    BY <1>3, <2>1, <2>2
  <2> QED BY <1>1, <1>3, <1>5, <2>1, <2>3
<1>11. CASE Access
  <2>1. At("touch") /\ Advance(1) /\ UNCHANGED <<cpu, pic, held>> /\ ready' = ready \cup {Arg}
    BY <1>11 DEF Access
  <2>2. next = own /\ Arg = "list" /\ "SCHEDULER" \in own
    BY <1>4, <2>1 DEF Orderly
  <2>3. ready' = ready
    BY <1>3, <2>1, <2>2
  <2> QED BY <1>1, <1>3, <1>5, <2>1, <2>2, <2>3
<1>12. CASE Map
  <2>1. /\ At("map") /\ Advance(1) /\ UNCHANGED <<cpu, pic, held>>
        /\ ready' = ready \cup {Instr(stack[Depth - 1])[2]}
    BY <1>12 DEF Map
  <2>2. r = "page_fault" /\ next = own
    BY <1>4, <2>1 DEF Orderly
  <2>3. Instr(stack[Depth - 1])[2] = Page
    <3>1. stack[1].routine = "main" /\ Depth - 1 = 1
      BY DEF PlanInv, OnPlan
    <3> QED BY <3>1 DEF Instr, Code, Page, MainCode
  <2>4. Faulting /\ ready' = ready \cup {Page}
    BY <1>3, <2>1, <2>2, <2>3
  <2> QED BY <1>1, <1>3, <1>5, <2>1, <2>2, <2>4
<1>13. CASE Eoi
  <2>1. At("eoi") /\ Advance(1) /\ pic' = [pic EXCEPT !.isr = @ \ {Arg}] /\ UNCHANGED <<cpu, held, ready>>
    BY <1>13 DEF Eoi
  <2>2. next = own /\ Arg # "card"
    BY <1>4, <2>1 DEF Orderly
  <2>3. /\ pic' \in [remapped : BOOLEAN, irr : SUBSET Lines, isr : SUBSET Lines]
        /\ pic'.remapped = pic.remapped /\ pic'.isr = pic.isr \ {Arg}
    BY <1>1, <2>1
  <2>4. "card" \in pic.isr => "card" \in pic'.isr
    BY <2>2, <2>3
  <2> QED BY <1>3, <1>5, <2>1, <2>2, <2>3, <2>4
<1> QED BY <1>6, <1>7, <1>8, <1>9, <1>10, <1>11, <1>12, <1>13

\* A stack of one activation, which is changed.
LEMMA Replaced ==
  ASSUME NEW st \in Seq(Frames), Len(st) = 1, NEW f \in Frames
  PROVE  /\ [st EXCEPT ![1] = f] \in Seq(Frames) /\ Len([st EXCEPT ![1] = f]) = 1
         /\ [st EXCEPT ![1] = f][1] = f
<1>1. 1 \in 1 .. Len(st)
  OBVIOUS
<1>2. [st EXCEPT ![1] = f] \in Seq(Frames)
  BY <1>1, ExceptSeq
<1>3. Len([st EXCEPT ![1] = f]) = Len(st)
  BY <1>1, ExceptSeq
<1>4. \A j \in 1 .. Len(st) : [st EXCEPT ![1] = f][j] = IF j = 1 THEN f ELSE st[j]
  BY <1>1, ExceptSeq
<1> QED BY <1>1, <1>2, <1>3, <1>4

\* A stack of one activation and one on top.
LEMMA Pushed ==
  ASSUME NEW below \in Seq(Frames), Len(below) = 1, NEW f \in Frames
  PROVE  /\ Append(below, f) \in Seq(Frames) /\ Len(Append(below, f)) = 2
         /\ Append(below, f)[1] = below[1] /\ Append(below, f)[2] = f
<1>1. Append(below, f) \in Seq(Frames)
  BY AppendProperties
<1>2. Len(Append(below, f)) = Len(below) + 1
  BY AppendProperties
<1>3. \A j \in 1 .. Len(below) : Append(below, f)[j] = below[j]
  BY AppendProperties
<1>4. Append(below, f)[Len(below) + 1] = f
  BY AppendProperties
<1> QED BY <1>1, <1>2, <1>3, <1>4

\* A handler starts on top of kernel_main, which may have advanced before.
LEMMA Entered ==
  ASSUME PlanInv, Depth = 1, program' = program, NEW below \in Seq(Frames), Len(below) = 1,
         below[1].routine = "main", below[1].saved = stack[1].saved,
         NEW i, i = below[1].at, i \in 1 .. Len(MainCode) + 1,
         Plan(program)[i] = MainState, i = stack[1].at \/ ready = MainState.ready,
         NEW r \in Active, stack' = Append(below, Frame(r)), cpu' = [cpu EXCEPT !.ifl = FALSE],
         pic' \in [remapped : BOOLEAN, irr : SUBSET Lines, isr : SUBSET Lines],
         pic'.remapped = pic.remapped, held' = held, ready' = ready,
         Below(held, Floor(r)),
         r = "page_fault" => Faulting /\ i = stack[1].at /\ Statics \subseteq ready,
         r = "double_fault" => "card" \in pic'.isr
  PROVE  PlanInv'
<1> DEFINE f == Frame(r)
<1>1. cpu \in [cs : {"loader", "kernel"}, idt : {"none", "loader", "kernel"}, ifl : BOOLEAN]
  BY DEF PlanInv, Typed
<1>2. f.routine = r /\ f.at = 1 /\ f.ifl = cpu.ifl /\ f.saved = FALSE
  BY DEF Frame
<1>3. f \in Frames
  BY <1>1 DEF Frame, Frames
<1> HIDE DEF f
<1>4. stack' \in Seq(Frames) /\ Len(stack') = 2 /\ stack'[1] = below[1] /\ stack'[2] = f
  <2>1. stack' = Append(below, f)
    BY DEF f
  <2> QED BY <1>3, <2>1, Pushed
<1>5. /\ MainCode' = MainCode /\ MainState' = MainState
      /\ i = stack[1].at => Faulting' = Faulting /\ Page' = Page
  BY <1>4 DEF MainCode, MainState, Faulting, Page
<1>6. /\ cpu' \in [cs : {"loader", "kernel"}, idt : {"none", "loader", "kernel"}, ifl : BOOLEAN]
      /\ cpu'.ifl = FALSE /\ cpu'.cs = cpu.cs /\ cpu'.idt = cpu.idt
  BY <1>1
<1>7. Typed'
  BY <1>4, <1>6 DEF Typed, Depth, PlanInv
<1>8. /\ ready = MainState.ready \/ (Faulting /\ ready = MainState.ready \cup {Page})
      /\ stack[1].saved = MainState.saved /\ cpu.cs = MainState.cs /\ cpu.idt = MainState.idt
      /\ pic.remapped = MainState.remapped /\ cpu.ifl = MainState.ifl /\ held = MainState.held
  BY DEF PlanInv, OnPlan, Alone
<1>9. ready' = MainState'.ready \/ (Faulting' /\ ready' = MainState'.ready \cup {Page'})
  BY <1>5, <1>8
<1>10. OnPlan'
  BY <1>4, <1>5, <1>6, <1>8, <1>9 DEF OnPlan
<1>11. Own[r][1] = {} /\ Len(Handlers[r]) \in Nat
  BY Discipline
<1>12. r = "page_fault" => Faulting' /\ Statics \subseteq ready'
  BY <1>5
<1>13. Handled(stack[2], {})'
  BY <1>2, <1>4, <1>5, <1>6, <1>8, <1>11, <1>12 DEF Handled
<1>14. Own[stack'[2].routine][stack'[2].at] = {} /\ Depth' = 2
  BY <1>2, <1>4, <1>11 DEF Depth
<1> QED BY <1>7, <1>10, <1>13, <1>14 DEF PlanInv

\* An access to a page that is not mapped starts the page fault handler.
LEMMA FaultKeeps ==
  ASSUME PlanInv, Fault
  PROVE  PlanInv'
<1>1. /\ At("touch") /\ Arg \notin ready /\ Enter("page_fault") /\ UNCHANGED <<program, pic, held, ready>>
  BY DEF Fault
<1>2. stack \in Seq(Frames) /\ Depth \in 1 .. 2 /\ Len(stack) = Depth
  BY DEF PlanInv, Typed, Depth
<1>3. CASE Depth = 2
  <2>1. /\ Arg = "list" /\ "SCHEDULER" \in Own[Top.routine][Top.at]
    BY <1>1, <1>3, HandlerInstr DEF Orderly
  <2>2. "list" \in ready
    BY <1>3, <2>1, HandlerFacts DEF Handled
  <2> QED BY <1>1, <2>1, <2>2
<1>4. CASE Depth = 1
  <2>1. /\ stack[1].at \in 1 .. Len(MainCode) /\ MainCode[stack[1].at][1] = "touch"
        /\ Sound(MainCode[stack[1].at], MainState)
    BY <1>1, <1>4, MainInstr
  <2>2. MainState.idt = MainState.cs /\ Statics \subseteq MainState.ready /\ Below(MainState.held, 3)
    BY <2>1 DEF Sound
  <2>3. /\ cpu.idt = cpu.cs /\ Below(held, 3) /\ Statics \subseteq ready
    BY <1>1, <1>4, <2>2, MainFacts
  <2>4. Gate("page_fault") = "page_fault" /\ Floor("page_fault") = 3 /\ "page_fault" \in Active
    BY <2>3 DEF Gate, Floor, Active
  <2>5. stack' = Append(stack, Frame("page_fault")) /\ cpu' = [cpu EXCEPT !.ifl = FALSE]
    BY <1>1, <2>4 DEF Enter
  <2>6. /\ stack[1].routine = "main" /\ stack[1].at \in 1 .. Len(MainCode) + 1
        /\ pic \in [remapped : BOOLEAN, irr : SUBSET Lines, isr : SUBSET Lines]
    BY DEF PlanInv, OnPlan, Typed
  <2>7. Faulting /\ Plan(program)[stack[1].at] = MainState
    BY <2>1 DEF Faulting, MainState
  <2> QED BY <1>1, <1>2, <1>4, <2>3, <2>4, <2>5, <2>6, <2>7, Entered
<1> QED BY <1>2, <1>3, <1>4

\* The breakpoint of kernel_main starts the breakpoint handler.
LEMMA Int3Keeps ==
  ASSUME PlanInv, Int3
  PROVE  PlanInv'
<1> DEFINE below == [stack EXCEPT ![Depth].at = @ + 1]
<1>1. /\ At("int") /\ stack' = Append(below, Frame(Gate(Arg))) /\ cpu' = [cpu EXCEPT !.ifl = FALSE]
      /\ UNCHANGED <<program, pic, held, ready>>
  BY DEF Int3
<1>2. stack \in Seq(Frames) /\ Depth \in 1 .. 2 /\ Len(stack) = Depth
  BY DEF PlanInv, Typed, Depth
<1>3. Depth = 1
  <2>1. ASSUME Depth = 2 PROVE FALSE
    BY <1>1, <2>1, HandlerInstr DEF Orderly
  <2> QED BY <1>2, <2>1
<1>4. /\ stack[1].at \in 1 .. Len(MainCode) /\ MainCode[stack[1].at][1] = "int"
      /\ MainCode[stack[1].at][2] = Arg /\ Sound(MainCode[stack[1].at], MainState)
      /\ Plan(program)[stack[1].at + 1] = Effect(MainCode[stack[1].at], MainState)
  BY <1>1, <1>3, MainInstr
<1>5. Arg = "breakpoint" /\ MainState.idt = MainState.cs /\ Below(MainState.held, 5)
  BY <1>4 DEF Sound
<1>6. cpu.idt = cpu.cs /\ Below(held, 5) /\ ready = MainState.ready
  BY <1>1, <1>3, <1>5, MainFacts
<1>7. Gate(Arg) = "breakpoint" /\ Floor("breakpoint") = 5 /\ "breakpoint" \in Active
  BY <1>5, <1>6 DEF Gate, Floor, Active
<1>8. Plan(program)[stack[1].at + 1] = MainState
  BY <1>4 DEF Effect
<1>9. stack[1] \in Frames /\ stack[1].routine = "main"
  <2>1. stack[1] \in Frames
    BY <1>2, <1>3, ElementOfSeq
  <2> QED BY <2>1 DEF PlanInv, OnPlan
<1> DEFINE g == [stack[1] EXCEPT !.at = @ + 1]
<1>10. g \in Frames /\ g.routine = "main" /\ g.at = stack[1].at + 1 /\ g.saved = stack[1].saved
  BY <1>9 DEF Frames
<1>11. below = [stack EXCEPT ![1] = g]
  BY <1>3
<1> HIDE DEF below, g
<1>12. below \in Seq(Frames) /\ Len(below) = 1 /\ below[1] = g
  <2>1. 1 \in 1 .. Len(stack) /\ Len(stack) = 1
    BY <1>2, <1>3
  <2> QED BY <1>2, <1>10, <1>11, <2>1, Replaced
<1>13. stack[1].at + 1 \in 1 .. Len(MainCode) + 1
  BY <1>4, PlanFacts
<1>14. pic \in [remapped : BOOLEAN, irr : SUBSET Lines, isr : SUBSET Lines]
  BY DEF PlanInv, Typed
<1> QED BY <1>1, <1>3, <1>6, <1>7, <1>8, <1>10, <1>12, <1>13, <1>14, Entered

\* A device interrupts kernel_main, where interrupts are on.
LEMMA InterruptKeeps ==
  ASSUME PlanInv, NEW l \in Unmasked, Interrupt(l)
  PROVE  PlanInv'
<1>1. /\ cpu.ifl /\ pic' = [pic EXCEPT !.irr = @ \ {l}, !.isr = @ \cup {l}] /\ Enter(Vector(l))
      /\ UNCHANGED <<program, held, ready>>
  BY DEF Interrupt
<1>2. stack \in Seq(Frames) /\ Depth \in 1 .. 2 /\ Len(stack) = Depth
  BY DEF PlanInv, Typed, Depth
<1>3. Depth = 1
  <2>1. ASSUME Depth = 2 PROVE FALSE
    BY <1>1, <2>1, HandlerFacts DEF Handled
  <2> QED BY <1>2, <2>1
<1>4. /\ cpu.ifl = MainState.ifl /\ held = MainState.held /\ cpu.cs = MainState.cs
      /\ cpu.idt = MainState.idt /\ pic.remapped = MainState.remapped
  BY <1>3 DEF PlanInv, OnPlan, Alone
<1>5. pic.remapped /\ cpu.idt = cpu.cs /\ Below(held, 5)
  BY <1>1, <1>4, PlanFacts DEF Guarded
<1> DEFINE r == IF l = "card" THEN "double_fault" ELSE l
<1>6. l \in Lines /\ r \in Active /\ r # "page_fault" /\ Floor(r) = 5 /\ (r = "double_fault" => l = "card")
  BY FirmwareAssumption DEF Lines, Active, Floor
<1>7. Gate(Vector(l)) = r
  BY <1>5 DEF Gate, Vector
<1> HIDE DEF r
<1>8. stack' = Append(stack, Frame(r)) /\ cpu' = [cpu EXCEPT !.ifl = FALSE]
  BY <1>1, <1>7 DEF Enter
<1>9. pic \in [remapped : BOOLEAN, irr : SUBSET Lines, isr : SUBSET Lines]
  BY DEF PlanInv, Typed
<1>10. /\ pic' \in [remapped : BOOLEAN, irr : SUBSET Lines, isr : SUBSET Lines]
       /\ pic'.remapped = pic.remapped /\ l \in pic'.isr
  BY <1>1, <1>6, <1>9
<1>11. /\ stack[1].routine = "main" /\ stack[1].at \in 1 .. Len(MainCode) + 1
       /\ Plan(program)[stack[1].at] = MainState
  BY DEF PlanInv, OnPlan, MainState
<1>12. r = "double_fault" => "card" \in pic'.isr
  BY <1>6, <1>10
<1> QED BY <1>1, <1>2, <1>3, <1>5, <1>6, <1>8, <1>10, <1>11, <1>12, Entered

\* A handler returns to where it struck.
LEMMA IretqKeeps ==
  ASSUME PlanInv, Iretq
  PROVE  PlanInv'
<1>1. /\ Ended /\ Depth > 1 /\ stack' = SubSeq(stack, 1, Depth - 1)
      /\ cpu' = [cpu EXCEPT !.ifl = Top.ifl] /\ UNCHANGED <<program, pic, held, ready>>
  BY DEF Iretq
<1>2. stack \in Seq(Frames) /\ Depth = 2 /\ Len(stack) = 2
  BY <1>1 DEF PlanInv, Typed, Depth
<1>3. stack' \in Seq(Frames) /\ Len(stack') = 1 /\ stack'[1] = stack[1]
  BY <1>1, <1>2, SubSeqProperties
<1>4. Top.at = Len(Handlers[Top.routine]) + 1
  BY <1>1, <1>2, HandlerFacts DEF Ended
<1>5. Own[Top.routine][Top.at] = {}
  BY <1>2, <1>4, HandlerFacts, Discipline
<1>6. Handled(Top, {})
  BY <1>2, <1>5, HandlerFacts
<1>7. held = MainState.held /\ Top.ifl = MainState.ifl
  BY <1>6 DEF Handled
<1>8. /\ cpu \in [cs : {"loader", "kernel"}, idt : {"none", "loader", "kernel"}, ifl : BOOLEAN]
      /\ MainState.ifl \in BOOLEAN
  BY PlanFacts DEF PlanInv, Typed, States
<1>9. /\ cpu' \in [cs : {"loader", "kernel"}, idt : {"none", "loader", "kernel"}, ifl : BOOLEAN]
      /\ cpu'.ifl = MainState.ifl /\ cpu'.cs = cpu.cs /\ cpu'.idt = cpu.idt
  BY <1>1, <1>7, <1>8
<1>10. MainCode' = MainCode /\ MainState' = MainState /\ Faulting' = Faulting /\ Page' = Page
  BY <1>1, <1>3 DEF MainCode, MainState, Faulting, Page
<1>11. Typed'
  BY <1>1, <1>3, <1>9 DEF Typed, Depth, PlanInv
<1>12. OnPlan'
  BY <1>1, <1>3, <1>9, <1>10 DEF OnPlan, PlanInv
<1>13. Alone' /\ Depth' = 1
  BY <1>1, <1>3, <1>7, <1>9, <1>10 DEF Alone, Depth
<1> QED BY <1>11, <1>12, <1>13 DEF PlanInv

\* A device requests an interrupt.
LEMMA RaiseKeeps ==
  ASSUME PlanInv, NEW l \in Unmasked, Raise(l)
  PROVE  PlanInv'
<1>1. pic' = [pic EXCEPT !.irr = @ \cup {l}] /\ UNCHANGED <<program, stack, cpu, held, ready>>
  BY DEF Raise
<1>2. pic \in [remapped : BOOLEAN, irr : SUBSET Lines, isr : SUBSET Lines]
  BY DEF PlanInv, Typed
<1>3. /\ pic' \in [remapped : BOOLEAN, irr : SUBSET Lines, isr : SUBSET Lines]
      /\ pic'.remapped = pic.remapped /\ pic'.isr = pic.isr
  BY <1>1, <1>2, FirmwareAssumption
<1>4. /\ MainCode' = MainCode /\ MainState' = MainState /\ Faulting' = Faulting /\ Page' = Page
      /\ Depth' = Depth
  BY <1>1 DEF MainCode, MainState, Faulting, Page, Depth
<1>5. Typed' /\ OnPlan'
  BY <1>1, <1>3, <1>4 DEF Typed, OnPlan, PlanInv
<1>6. Depth = 1 => Alone'
  BY <1>1, <1>4 DEF Alone, PlanInv
<1>7. Depth = 2 => Handled(stack[2], Own[stack[2].routine][stack[2].at])'
  BY <1>1, <1>3, <1>4 DEF Handled, PlanInv
<1> QED BY <1>4, <1>5, <1>6, <1>7 DEF PlanInv

\* The boot starts at the start of its plan.
LEMMA InitBoot ==
  ASSUME Init
  PROVE  PlanInv
<1>1. /\ program \in DOMAIN Kernel_main
      /\ cpu = [cs |-> "loader", idt |-> "none", ifl |-> FALSE]
      /\ stack = <<[routine |-> "main", at |-> 1, ifl |-> FALSE, saved |-> FALSE]>>
      /\ pic = [remapped |-> FALSE, irr |-> {}, isr |-> {}] /\ held = {} /\ ready = {}
  BY DEF Init
<1> DEFINE f == [routine |-> "main", at |-> 1, ifl |-> FALSE, saved |-> FALSE]
<1>2. f \in Frames /\ f.routine = "main" /\ f.at = 1 /\ f.saved = FALSE /\ stack = <<f>>
  BY <1>1 DEF Frames
<1> HIDE DEF f
<1>3. stack \in Seq(Frames) /\ Len(stack) = 1 /\ stack[1] = f
  BY <1>2
<1>4. IsPlan(MainCode, Plan(program))
  BY <1>1, PlanExists DEF MainCode
<1>5. Plan(program)[1] = Start /\ MainCode \in Seq(Instrs)
  BY <1>4 DEF IsPlan, Walk
<1>6. Len(MainCode) \in Nat
  BY <1>5, LenProperties
<1>7. MainState = Start
  BY <1>2, <1>3, <1>5 DEF MainState
<1>8. Typed
  BY <1>1, <1>3 DEF Typed, Depth
<1>9. OnPlan /\ Alone
  <2>1. /\ MainState.held = {} /\ MainState.ifl = FALSE /\ MainState.saved = FALSE
        /\ MainState.cs = "loader" /\ MainState.idt = "none" /\ MainState.remapped = FALSE
        /\ MainState.ready = {}
    BY <1>7 DEF Start, Early
  <2>2. /\ cpu.cs = "loader" /\ cpu.idt = "none" /\ cpu.ifl = FALSE /\ pic.remapped = FALSE
        /\ held = {} /\ ready = {}
    BY <1>1
  <2>3. /\ stack[1].routine = "main" /\ stack[1].at \in 1 .. Len(MainCode) + 1
        /\ stack[1].saved = FALSE
    BY <1>2, <1>3, <1>6
  <2> QED BY <2>1, <2>2, <2>3 DEF OnPlan, Alone
<1>10. Depth = 1
  BY <1>3 DEF Depth
<1> QED BY <1>8, <1>9, <1>10 DEF PlanInv

\* Every step keeps kernel_main on its plan and the handlers disciplined.
LEMMA NextBoot ==
  ASSUME PlanInv, [Next]_vars
  PROVE  PlanInv'
<1>1. Depth = 1 \/ Depth = 2
  BY DEF PlanInv, Typed
<1>2. CASE UNCHANGED vars \/ Panic
  BY <1>2 DEF Panic, vars, PlanInv, Typed, OnPlan, Alone, Handled, Depth, MainCode, MainState, Faulting, Page
<1>3. ASSUME Depth = 2, Load_gdt \/ Load_idt \/ Remap \/ Enable \/ Assign PROVE FALSE
  <2>1. At("lgdt") \/ At("lidt") \/ At("remap") \/ At("sti") \/ At("fill")
    BY <1>3 DEF Load_gdt, Load_idt, Remap, Enable, Assign
  <2>2. PICK op \in {"lgdt", "lidt", "remap", "sti", "fill"} : At(op)
    BY <2>1
  <2> QED BY <1>3, <2>2, HandlerInstr DEF Orderly
<1>4. ASSUME Depth = 1, Try_lock \/ Map \/ Eoi PROVE FALSE
  <2>1. At("try_lock") \/ At("map") \/ At("eoi")
    BY <1>4 DEF Try_lock, Map, Eoi
  <2>2. PICK op \in {"try_lock", "map", "eoi"} : At(op)
    BY <2>1
  <2>3. op \in Ops
    BY <1>4, <2>2, MainInstr
  <2> QED BY <2>2, <2>3 DEF Ops
<1>5. CASE Load_gdt \/ Load_idt \/ Remap \/ Enable \/ Assign
  BY <1>1, <1>3, <1>5, MainStep
<1>6. CASE Disable \/ Restore \/ Lock \/ Unlock \/ Access
  BY <1>1, <1>6, MainStep, HandlerStep
<1>7. CASE Try_lock \/ Map \/ Eoi
  BY <1>1, <1>4, <1>7, HandlerStep
<1>8. CASE Fault
  BY <1>8, FaultKeeps
<1>9. CASE Int3
  BY <1>9, Int3Keeps
<1>10. CASE Iretq
  BY <1>10, IretqKeeps
<1>11. ASSUME NEW l \in Unmasked, Raise(l) \/ Interrupt(l) PROVE PlanInv'
  BY <1>11, RaiseKeeps, InterruptKeeps
<1> QED BY <1>2, <1>5, <1>6, <1>7, <1>8, <1>9, <1>10, <1>11 DEF Next, Step

\* kernel_main executes according to its plan, whatever strikes it on the way.
THEOREM BootIsInvariant == Spec => []PlanInv
<1>1. Init => PlanInv
  BY InitBoot
<1>2. PlanInv /\ [Next]_vars => PlanInv'
  BY NextBoot
<1> QED BY <1>1, <1>2, PTL DEF Spec

-----------------------------------------------------------------------------
\* The handlers hold mutexes.
LEMMA OwnMutexes ==
  ASSUME NEW r \in Active, NEW k \in 1 .. Len(Handlers[r]) + 1
  PROVE  Own[r][k] \subseteq Mutexes
<1>1. CASE r = "timer"
  <2>1. k = 1 \/ k = 2 \/ k = 3 \/ k = 4 \/ k = 5 \/ k = 6 \/ k = 7
    BY <1>1, TimerDiscipline
  <2> QED BY <1>1, <2>1 DEF Own, Mutexes
<1>2. CASE r = "keyboard"
  <2>1. k = 1 \/ k = 2 \/ k = 3 \/ k = 4 \/ k = 5 \/ k = 6 \/ k = 7 \/ k = 8 \/ k = 9 \/ k = 10 \/ k = 11
    BY <1>2, KeyboardDiscipline
  <2> QED BY <1>2, <2>1 DEF Own, Mutexes
<1>3. CASE r = "breakpoint"
  <2>1. k = 1 \/ k = 2 \/ k = 3 \/ k = 4 \/ k = 5
    BY <1>3, BreakpointDiscipline
  <2> QED BY <1>3, <2>1 DEF Own, Mutexes
<1>4. CASE r = "page_fault"
  <2>1. k = 1 \/ k = 2 \/ k = 3 \/ k = 4 \/ k = 5 \/ k = 6
    BY <1>4, PageFaultDiscipline
  <2> QED BY <1>4, <2>1 DEF Own, Mutexes, Statics
<1>5. CASE r = "double_fault"
  <2>1. k = 1 \/ k = 2
    BY <1>5, DoubleFaultDiscipline
  <2> QED BY <1>5, <2>1 DEF Own
<1> QED BY <1>1, <1>2, <1>3, <1>4, <1>5 DEF Active

\* What the invariant says of the mutexes that are held.
LEMMA HeldMutexes ==
  ASSUME PlanInv
  PROVE  held \subseteq Mutexes
<1>1. Depth = 1 \/ Depth = 2
  BY DEF PlanInv, Typed
<1>2. CASE Depth = 1
  <2>1. held = MainState.held
    BY <1>2 DEF PlanInv, Alone
  <2> QED BY <2>1, PlanFacts DEF States
<1>3. CASE Depth = 2
  <2>1. held = MainState.held \cup Own[Top.routine][Top.at]
    BY <1>3, HandlerFacts DEF Handled
  <2>2. Own[Top.routine][Top.at] \subseteq Mutexes
    BY <1>3, HandlerFacts, OwnMutexes
  <2> QED BY <1>3, <2>1, <2>2, HandlerFacts
<1> QED BY <1>1, <1>2, <1>3

\* Every variable stays within the values the code gives it, and there is never
\* more than one handler active.
THEOREM BootTypeOK == Spec => []TypeOK
<1>1. PlanInv => TypeOK
  BY HeldMutexes DEF PlanInv, Typed, TypeOK
<1> QED BY <1>1, BootIsInvariant, PTL

\* The mutexes are locked in the order of their ranks.
LEMMA LocksAbove ==
  ASSUME PlanInv
  PROVE  LocksFollowHierarchy
<1> SUFFICES ASSUME At("lock"), NEW m \in held PROVE Rank[m] < Rank[Arg]
  BY DEF LocksFollowHierarchy
<1>1. Depth = 1 \/ Depth = 2
  BY DEF PlanInv, Typed
<1>2. CASE Depth = 1
  <2>1. /\ MainCode[stack[1].at][1] = "lock" /\ MainCode[stack[1].at][2] = Arg
        /\ Sound(MainCode[stack[1].at], MainState) /\ held = MainState.held
    BY <1>2, MainInstr, MainFacts
  <2>2. Below(held, Rank[Arg])
    BY <2>1 DEF Sound
  <2> QED BY <2>2 DEF Below
<1>3. CASE Depth = 2
  <2> DEFINE own == Own[Top.routine][Top.at]
  <2>1. Orderly(Top.routine, "lock", Arg, own, Own[Top.routine][Top.at + 1])
    BY <1>3, HandlerInstr
  <2>2. Arg \in Mutexes /\ Floor(Top.routine) <= Rank[Arg] /\ Below(own, Rank[Arg])
    BY <2>1 DEF Orderly
  <2>3. /\ held = MainState.held \cup own /\ Below(MainState.held, Floor(Top.routine))
        /\ MainState.held \in SUBSET Mutexes
    BY <1>3, HandlerFacts DEF Handled
  <2> HIDE DEF own
  <2>4. CASE m \in MainState.held
    <3>1. Rank[m] < Floor(Top.routine) /\ Rank[m] \in Nat /\ Rank[Arg] \in Nat
      BY <2>2, <2>3, <2>4, Ranks DEF Below
    <3> QED BY <2>2, <3>1 DEF Floor
  <2>5. CASE m \in own
    BY <2>2, <2>5 DEF Below
  <2> QED BY <2>3, <2>4, <2>5
<1> QED BY <1>1, <1>2, <1>3

\* Every mutex is locked above all that are held, below a handler as well.
THEOREM BootLocksFollowHierarchy == Spec => []LocksFollowHierarchy
<1>1. PlanInv => LocksFollowHierarchy
  BY LocksAbove
<1> QED BY <1>1, BootIsInvariant, PTL

\* No activation waits for a mutex that is held, by itself or below it.
THEOREM BootNobodySpins == Spec => []NobodySpins
<1>1. ASSUME PlanInv PROVE NobodySpins
  <2> SUFFICES ASSUME At("lock"), Arg \in held PROVE FALSE
    BY DEF NobodySpins
  <2>1. Rank[Arg] < Rank[Arg]
    BY <1>1, LocksAbove DEF LocksFollowHierarchy
  <2>2. Rank[Arg] \in Nat
    BY <1>1, HeldMutexes, Ranks
  <2> QED BY <2>1, <2>2
<1> QED BY <1>1, BootIsInvariant, PTL

\* The card requests an interrupt only when the driver has enabled it.
CardInv == "card" \in pic.irr \cup pic.isr => "imr" \in ready

\* Requests are made by devices only, and what is ready stays so.
LEMMA NextCard ==
  ASSUME PlanInv, CardInv, [Next]_vars
  PROVE  CardInv'
<1>1. pic \in [remapped : BOOLEAN, irr : SUBSET Lines, isr : SUBSET Lines]
  BY DEF PlanInv, Typed
<1>2. ASSUME pic' = pic, ready \subseteq ready' PROVE CardInv'
  BY <1>2 DEF CardInv
<1>3. CASE UNCHANGED vars \/ Panic
  BY <1>2, <1>3 DEF vars, Panic
<1>4. CASE \/ Load_gdt \/ Load_idt \/ Enable \/ Disable \/ Restore \/ Lock \/ Try_lock \/ Unlock
           \/ Fault \/ Int3 \/ Iretq
  <2>1. pic' = pic /\ ready' = ready
    BY <1>4 DEF Load_gdt, Load_idt, Enable, Disable, Restore, Lock, Try_lock, Unlock, Fault, Int3, Iretq
  <2> QED BY <1>2, <2>1
<1>5. CASE Assign \/ Access \/ Map
  <2>1. pic' = pic /\ ready \subseteq ready'
    BY <1>5 DEF Assign, Access, Map
  <2> QED BY <1>2, <2>1
<1>6. CASE Remap
  <2>1. pic' = [pic EXCEPT !.remapped = TRUE] /\ ready' = ready
    BY <1>6 DEF Remap
  <2>2. pic'.irr = pic.irr /\ pic'.isr = pic.isr
    BY <1>1, <2>1
  <2> QED BY <2>1, <2>2 DEF CardInv
<1>7. CASE Eoi
  <2>1. pic' = [pic EXCEPT !.isr = @ \ {Arg}] /\ ready' = ready
    BY <1>7 DEF Eoi
  <2>2. pic'.irr = pic.irr /\ pic'.isr \subseteq pic.isr
    BY <1>1, <2>1
  <2> QED BY <2>1, <2>2 DEF CardInv
<1>8. ASSUME NEW l \in Unmasked, Raise(l) PROVE CardInv'
  <2>1. /\ pic' = [pic EXCEPT !.irr = @ \cup {l}] /\ ready' = ready
        /\ l = "card" => "imr" \in ready
    BY <1>8 DEF Raise
  <2>2. pic'.irr = pic.irr \cup {l} /\ pic'.isr = pic.isr
    BY <1>1, <2>1
  <2> QED BY <2>1, <2>2 DEF CardInv
<1>9. ASSUME NEW l \in Unmasked, Interrupt(l) PROVE CardInv'
  <2>1. /\ pic' = [pic EXCEPT !.irr = @ \ {l}, !.isr = @ \cup {l}] /\ ready' = ready
        /\ l \in pic.irr
    BY <1>9 DEF Interrupt
  <2>2. pic'.irr = pic.irr \ {l} /\ pic'.isr = pic.isr \cup {l}
    BY <1>1, <2>1
  <2> QED BY <2>1, <2>2 DEF CardInv
<1> QED BY <1>3, <1>4, <1>5, <1>6, <1>7, <1>8, <1>9 DEF Next, Step

\* No interrupt, exception or heap access comes before its handler is in place,
\* and the page fault handler finds the mapper and the frames; only the card's
\* interrupt, once the driver has enabled it, ends in a double fault.
THEOREM BootHandlersAreReady == Spec => []HandlersAreReady
<1>1. ASSUME PlanInv, CardInv PROVE HandlersAreReady
  <2>1. stack \in Seq(Frames) /\ Len(stack) = Depth /\ Depth \in 1 .. 2
    BY <1>1 DEF PlanInv, Typed, Depth
  <2>2. ASSUME NEW i \in 1 .. Depth, stack[i].routine = "double_fault"
        PROVE  "card" \in pic.isr /\ "imr" \in ready
    <3>1. stack[1].routine = "main"
      BY <1>1 DEF PlanInv, OnPlan
    <3>2. Depth = 2 /\ i = 2
      BY <2>1, <2>2, <3>1
    <3>3. "card" \in pic.isr
      BY <1>1, <2>2, <3>2, HandlerFacts DEF Handled
    <3> QED BY <1>1, <3>3 DEF CardInv
  <2>3. ASSUME At("map") PROVE {"MAPPER", "FRAME_ALLOCATOR"} \subseteq ready
    <3>1. Depth = 2
      <4>1. ASSUME Depth = 1 PROVE FALSE
        BY <1>1, <2>3, <4>1, MainInstr DEF Ops
      <4> QED BY <2>1, <4>1
    <3>2. Top.routine = "page_fault"
      BY <1>1, <2>3, <3>1, HandlerInstr DEF Orderly
    <3> QED BY <1>1, <3>1, <3>2, HandlerFacts DEF Handled, Statics
  <2> QED BY <2>2, <2>3 DEF HandlersAreReady
<1>2. Init => CardInv
  BY DEF Init, CardInv
<1>3. PlanInv /\ CardInv /\ [Next]_vars => CardInv'
  BY NextCard
<1> QED BY <1>1, <1>2, <1>3, BootIsInvariant, PTL DEF Spec

\* In the halt loop interrupts are on and no mutex is held.
HaltsOpen == Depth = 1 /\ Ended => cpu.ifl /\ held = {}

\* Whatever struck it on the way, kernel_main enters its halt loop with interrupts
\* on and no mutex held: the safety half of BootCompletes.
THEOREM BootHaltsOpen == Spec => []HaltsOpen
<1>1. ASSUME PlanInv PROVE HaltsOpen
  <2> SUFFICES ASSUME Depth = 1, Ended PROVE cpu.ifl /\ held = {}
    BY DEF HaltsOpen
  <2>1. stack[1].routine = "main" /\ stack[1].at \in 1 .. Len(MainCode) + 1
    BY <1>1 DEF PlanInv, OnPlan
  <2>2. Top = stack[1] /\ Code("main") = MainCode
    BY DEF Top, Code, MainCode
  <2>3. stack[1].at = Len(MainCode) + 1
    BY <1>1, <2>1, <2>2, PlanFacts DEF Ended
  <2>4. IsPlan(MainCode, Plan(program))
    BY <1>1, PlanExists DEF PlanInv, Typed, MainCode
  <2>5. MainState.ifl /\ MainState.held = {}
    BY <2>3, <2>4 DEF IsPlan, MainState
  <2> QED BY <1>1, <2>5 DEF PlanInv, Alone
<1> QED BY <1>1, BootIsInvariant, PTL
=============================================================================
