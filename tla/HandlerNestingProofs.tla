------------------------ MODULE HandlerNestingProofs -------------------------
(***************************************************************************)
(* Proofs that a handler which saves its return state gets back to what it *)
(* interrupted, for any word size and any depth of nesting.                *)
(***************************************************************************)
EXTENDS HandlerNesting, ProcessorLemmas, SequenceTheorems, TLAPS

\* The distance of the return address from the pc that was interrupted.
Back(mode) == IF mode = supervisorMode THEN 0 ELSE 4

ReturnLink(f) == (f.pc + Back(f.mode)) % WordSpace

\* The return state of f is in f.
Held(f) == f.phase = "saved" /\ f.lr = ReturnLink(f) /\ f.spsr = f.cpsr

\* The return state of f is in the banked registers of q.
InBank(f, q) == GetRegister(q, 14).value = ReturnLink(f) /\ GetSPSR(q).value = f.cpsr

\* What the handler that runs needs to get back.
Running(f, q) ==
    ~f.exposed => /\ q.cpsr.mode = f.mode
                  /\ IF f.phase = "saved" THEN Held(f) ELSE InBank(f, q)

\* What a handler interrupted by the exception of g needs to get back.
Waiting(f, g) == ~f.exposed => Held(f) /\ g.cpsr.mode = f.mode

\* Frames that could all be returned from, the last one on q.
Stacked(s, q) ==
    /\ \A k \in 1 .. Len(s) : s[k].cpsr.mode \in ValidModes
    /\ \A k \in 1 .. (Len(s) - 1) : Waiting(s[k], s[k + 1])
    /\ s # <<>> => Running(s[Len(s)], q)

Inv == TypeOK /\ Good(p) /\ Stacked(frames, p)

-----------------------------------------------------------------------------
\* Sequences of frames

LEMMA FrontOfSeq ==
    ASSUME NEW S, NEW s \in Seq(S), s # <<>>
    PROVE  /\ Len(s) \in Nat \ {0}
           /\ s[Len(s)] \in S
           /\ Front(s) \in Seq(S)
           /\ Len(Front(s)) = Len(s) - 1
           /\ \A k \in 1 .. (Len(s) - 1) : Front(s)[k] = s[k]
<1>1. Len(s) \in Nat \ {0} /\ \A k \in 1 .. Len(s) : s[k] \in S
  BY EmptySeq, ElementOfSeq
<1>2. \A k \in 1 .. (Len(s) - 1) : s[k] \in S
  BY <1>1
<1> DEFINE n == Len(s) - 1
<1>3. n \in Nat /\ n = Len(s) - 1
  BY <1>1
<1> HIDE DEF n
<1>4. /\ Front(s) \in Seq(S)
      /\ Len(Front(s)) = n
      /\ \A k \in 1 .. n : Front(s)[k] = s[k]
  <2>1. Front(s) = SubSeq(s, 1, n)
    BY <1>3 DEF Front
  <2>2. /\ SubSeq(s, 1, n) \in Seq(S)
        /\ Len(SubSeq(s, 1, n)) = IF 1 <= n THEN n - 1 + 1 ELSE 0
        /\ \A k \in 1 .. (n - 1 + 1) : SubSeq(s, 1, n)[k] = s[1 + k - 1]
    BY <1>2, <1>3, SubSeqProperties
  <2> QED BY <1>3, <2>1, <2>2
<1>5. s[Len(s)] \in S
  BY <1>1
<1> QED BY <1>1, <1>3, <1>4, <1>5

\* s with another last element.
WithLast(s, e) == Front(s) \o <<e>>

LEMMA ReplaceLast ==
    ASSUME NEW S, NEW s \in Seq(S), s # <<>>, NEW e \in S
    PROVE  /\ WithLast(s, e) \in Seq(S)
           /\ WithLast(s, e) # <<>>
           /\ Len(WithLast(s, e)) = Len(s)
           /\ WithLast(s, e)[Len(s)] = e
           /\ \A k \in 1 .. (Len(s) - 1) : WithLast(s, e)[k] = s[k]
<1> DEFINE t == Front(s) \o <<e>>
<1>1. /\ Len(s) \in Nat \ {0}
      /\ Front(s) \in Seq(S)
      /\ Len(Front(s)) = Len(s) - 1
      /\ \A k \in 1 .. (Len(s) - 1) : Front(s)[k] = s[k]
  BY FrontOfSeq
<1>2. <<e>> \in Seq(S) /\ Len(<<e>>) = 1 /\ <<e>>[1] = e
  OBVIOUS
<1>3. /\ t \in Seq(S)
      /\ Len(t) = Len(s)
      /\ \A k \in 1 .. Len(s) : t[k] = IF k <= Len(s) - 1 THEN Front(s)[k]
                                       ELSE <<e>>[k - (Len(s) - 1)]
  BY <1>1, <1>2, ConcatProperties
<1> HIDE DEF t
<1>4. t[Len(s)] = e
  BY <1>1, <1>2, <1>3
<1>5. t # <<>>
  BY <1>1, <1>3, EmptySeq
<1>6. WithLast(s, e) = t
  BY DEF WithLast, t
<1> QED BY <1>1, <1>3, <1>4, <1>5, <1>6

LEMMA FrontKept ==
    ASSUME NEW s \in Seq(Frame), s # <<>>, NEW e \in Frame
    PROVE  \A k \in 1 .. (Len(s) - 1) : WithLast(s, e)[k] = s[k]
BY ReplaceLast, SMT

-----------------------------------------------------------------------------
\* The stack of frames

\* The last handler moves on: its frame still says what it interrupted.
LEMMA LastMovesOn ==
    ASSUME NEW s \in Seq(Frame), s # <<>>, NEW q, Stacked(s, q), NEW r,
           NEW e \in Frame, e.cpsr = s[Len(s)].cpsr, Running(e, r),
           NEW t, t = WithLast(s, e)
    PROVE  t \in Seq(Frame) /\ Len(t) = Len(s) /\ Stacked(t, r)
<1>1. /\ t \in Seq(Frame) /\ t # <<>> /\ Len(t) = Len(s)
      /\ t[Len(s)] = e
      /\ \A k \in 1 .. (Len(s) - 1) : t[k] = s[k]
      /\ Len(s) \in Nat \ {0}
  <2>1. Len(s) \in Nat \ {0}
    BY FrontOfSeq
  <2>2. WithLast(s, e) \in Seq(Frame) /\ WithLast(s, e) # <<>>
    BY ReplaceLast, Zenon
  <2>3. Len(WithLast(s, e)) = Len(s)
    BY ReplaceLast, Zenon
  <2>4. WithLast(s, e)[Len(s)] = e
    BY ReplaceLast, Zenon
  <2>5. \A k \in 1 .. (Len(s) - 1) : WithLast(s, e)[k] = s[k]
    BY FrontKept, Zenon
  <2> QED BY <2>1, <2>2, <2>3, <2>4, <2>5
<1>2. \A k \in 1 .. Len(t) : t[k].cpsr.mode \in ValidModes
  BY <1>1 DEF Stacked
<1>3. ASSUME NEW k \in 1 .. (Len(t) - 1) PROVE Waiting(t[k], t[k + 1])
  <2>1. Waiting(s[k], s[k + 1]) /\ t[k] = s[k]
    BY <1>1 DEF Stacked
  <2>2. t[k + 1].cpsr = s[k + 1].cpsr
    BY <1>1
  <2> QED BY <2>1, <2>2 DEF Waiting
<1> QED BY <1>1, <1>2, <1>3 DEF Stacked

\* Code of the last handler keeps the stack while it keeps the mode.
LEMMA LastRunsOn ==
    ASSUME NEW s, NEW q, Stacked(s, q), NEW r, r.cpsr.mode = q.cpsr.mode,
           s # <<>> => s[Len(s)].phase = "saved"
    PROVE  Stacked(s, r)
BY DEF Stacked, Running

\* An exception: the last frame is exposed unless it has saved its state, and
\* the new frame has its state in the bank.
Exposing(s) ==
    IF s = <<>> THEN s
    ELSE Front(s) \o <<[s[Len(s)] EXCEPT !.exposed =
                            @ \/ s[Len(s)].phase # "saved"]>>

LEMMA FrameEntered ==
    ASSUME NEW s \in Seq(Frame), NEW q, Stacked(s, q), NEW r,
           NEW g \in Frame, g.cpsr = q.cpsr, q.cpsr.mode \in ValidModes,
           g.phase = "entered", r.cpsr.mode = g.mode, InBank(g, r),
           NEW t, t = Append(Exposing(s), g)
    PROVE  t \in Seq(Frame) /\ Len(t) = Len(s) + 1 /\ Stacked(t, r)
<1> DEFINE u == Exposing(s)
<1>1. /\ u \in Seq(Frame) /\ Len(u) = Len(s) /\ Len(s) \in Nat
      /\ \A k \in 1 .. (Len(s) - 1) : u[k] = s[k]
      /\ \A k \in 1 .. Len(s) : u[k].cpsr.mode \in ValidModes
      /\ \A k \in 1 .. (Len(s) - 1) : Waiting(u[k], u[k + 1])
      /\ s # <<>> => Waiting(u[Len(s)], g)
  <2>1. CASE s = <<>>
    BY <2>1, EmptySeq DEF Exposing, Stacked
  <2>2. CASE s # <<>>
    <3> DEFINE f == s[Len(s)]
               e == [f EXCEPT !.exposed = @ \/ f.phase # "saved"]
    <3>1. Len(s) \in Nat \ {0} /\ f \in Frame
      BY <2>2, FrontOfSeq
    <3>2. /\ e \in Frame /\ e.cpsr = f.cpsr
          /\ ~e.exposed => ~f.exposed /\ f.phase = "saved" /\ e = f
      <4>1. f.exposed \in BOOLEAN
        BY <3>1 DEF Frame
      <4>2. (f.exposed \/ f.phase # "saved") \in BOOLEAN
        OBVIOUS
      <4>3. e \in Frame /\ e.cpsr = f.cpsr
            /\ e.exposed = (f.exposed \/ f.phase # "saved")
        BY <3>1, <4>2 DEF Frame
      <4>4. ~e.exposed => f.exposed = FALSE /\ e.exposed = FALSE
        BY <4>1, <4>3
      <4>5. ~e.exposed => e = f
        BY <3>1, <4>3, <4>4 DEF Frame
      <4> QED BY <4>3, <4>4, <4>5
    <3>3. u = WithLast(s, e)
      BY <2>2 DEF Exposing, WithLast
    <3> HIDE DEF e, u
    <3>4. /\ u \in Seq(Frame) /\ Len(u) = Len(s)
          /\ u[Len(s)] = e
          /\ \A k \in 1 .. (Len(s) - 1) : u[k] = s[k]
      <4>1. e \in Frame
        BY <3>2
      <4> QED BY <2>2, <3>3, <4>1, ReplaceLast
    <3>5. \A k \in 1 .. Len(s) : u[k].cpsr = s[k].cpsr
      <4>1. e.cpsr = s[Len(s)].cpsr
        BY <3>2
      <4> QED BY <3>1, <3>4, <4>1
    <3>6. ASSUME NEW k \in 1 .. (Len(s) - 1) PROVE Waiting(u[k], u[k + 1])
      <4>1. Waiting(s[k], s[k + 1]) /\ u[k] = s[k]
        BY <3>4 DEF Stacked
      <4>2. u[k + 1].cpsr = s[k + 1].cpsr
        BY <3>1, <3>5
      <4> QED BY <4>1, <4>2 DEF Waiting
    <3>7. Waiting(e, g)
      <4>1. ~f.exposed /\ f.phase = "saved" => Held(f) /\ q.cpsr.mode = f.mode
        BY <2>2 DEF Stacked, Running
      <4>2. ~e.exposed => Held(e) /\ q.cpsr.mode = e.mode
        BY <3>2, <4>1
      <4> QED BY <4>2 DEF Waiting
    <3> QED BY <3>1, <3>4, <3>5, <3>6, <3>7 DEF Stacked
  <2> QED BY <2>1, <2>2
<1>2. t = Append(u, g)
  OBVIOUS
<1> HIDE DEF u
<1>3. /\ t \in Seq(Frame) /\ t # <<>> /\ Len(t) = Len(s) + 1
      /\ \A k \in 1 .. Len(s) : t[k] = u[k]
      /\ t[Len(s) + 1] = g
  BY <1>1, <1>2, AppendProperties
<1>4. \A k \in 1 .. Len(t) : t[k].cpsr.mode \in ValidModes
  BY <1>1, <1>3
<1>5. ASSUME NEW k \in 1 .. (Len(t) - 1) PROVE Waiting(t[k], t[k + 1])
  <2>1. CASE k = Len(s)
    <3>1. s # <<>>
      BY <1>1, <2>1, EmptySeq
    <3> QED BY <1>1, <1>3, <2>1, <3>1
  <2>2. CASE k \in 1 .. (Len(s) - 1)
    BY <1>1, <1>3, <2>2
  <2> QED BY <1>1, <1>3, <2>1, <2>2
<1>6. Running(g, r)
  BY DEF Running
<1> QED BY <1>3, <1>4, <1>5, <1>6 DEF Stacked

\* A return: the frame below is where it was, or exposed with the one that goes.
Uncovered(s) ==
    LET outer == Front(s)
    IN  IF outer # <<>> /\ s[Len(s)].exposed
          THEN [outer EXCEPT ![Len(outer)].exposed = TRUE] ELSE outer

LEMMA FrameReturned ==
    ASSUME NEW s \in Seq(Frame), s # <<>>, NEW q, Stacked(s, q), NEW r,
           ~s[Len(s)].exposed => r.cpsr = s[Len(s)].cpsr,
           NEW t, t = Uncovered(s)
    PROVE  t \in Seq(Frame) /\ Len(t) = Len(s) - 1 /\ Stacked(t, r)
<1> DEFINE u == Front(s)
           f == s[Len(s)]
<1>1. /\ Len(s) \in Nat \ {0} /\ u \in Seq(Frame) /\ Len(u) = Len(s) - 1
      /\ \A k \in 1 .. (Len(s) - 1) : u[k] = s[k]
      /\ f \in Frame
  BY FrontOfSeq
<1>2. \A k \in 1 .. Len(u) : u[k].cpsr.mode \in ValidModes
  BY <1>1 DEF Stacked
<1>3. ASSUME NEW k \in 1 .. (Len(u) - 1) PROVE Waiting(u[k], u[k + 1])
  BY <1>1 DEF Stacked
<1>4. t = IF u # <<>> /\ f.exposed THEN [u EXCEPT ![Len(u)].exposed = TRUE] ELSE u
  BY DEF Uncovered
<1>5. u # <<>> => Len(u) \in 1 .. (Len(s) - 1)
  BY <1>1, EmptySeq
<1>6. u # <<>> => Waiting(u[Len(u)], f)
  BY <1>1, <1>5 DEF Stacked
<1> HIDE DEF u, f
<1>7. CASE u = <<>>
  BY <1>1, <1>2, <1>3, <1>4, <1>7 DEF Stacked
<1>8. CASE u # <<>> /\ ~f.exposed
  <2>1. r.cpsr = f.cpsr
    BY <1>8 DEF f
  <2>2. Running(u[Len(u)], r)
    BY <1>6, <1>8, <2>1 DEF Waiting, Running, Held
  <2> QED BY <1>1, <1>2, <1>3, <1>4, <1>8, <2>2 DEF Stacked
<1>9. CASE u # <<>> /\ f.exposed
  <2> DEFINE e == [u[Len(u)] EXCEPT !.exposed = TRUE]
  <2>1. e \in Frame /\ e.cpsr = u[Len(u)].cpsr /\ e.exposed = TRUE
    <3>1. u[Len(u)] \in Frame
      BY <1>1, <1>5, <1>9, ElementOfSeq
    <3> QED BY <3>1 DEF Frame
  <2>2. t = [u EXCEPT ![Len(u)] = e]
    BY <1>4, <1>9
  <2> HIDE DEF e
  <2>3. /\ t \in Seq(Frame) /\ Len(t) = Len(u)
        /\ \A k \in 1 .. Len(u) : t[k] = IF k = Len(u) THEN e ELSE u[k]
    BY <1>1, <1>5, <1>9, <2>1, <2>2, ExceptSeq
  <2>4. \A k \in 1 .. Len(t) : t[k].cpsr.mode \in ValidModes
    BY <1>1, <1>2, <2>1, <2>3
  <2>5. ASSUME NEW k \in 1 .. (Len(t) - 1) PROVE Waiting(t[k], t[k + 1])
    <3>1. Len(u) \in Nat /\ k \in 1 .. (Len(u) - 1) /\ k # Len(u)
      BY <1>1, <2>3
    <3>2. Waiting(u[k], u[k + 1]) /\ t[k] = u[k]
      BY <1>3, <2>3, <3>1
    <3>3. t[k + 1].cpsr = u[k + 1].cpsr
      BY <2>1, <2>3, <3>1
    <3> QED BY <3>2, <3>3 DEF Waiting
  <2>6. Running(t[Len(t)], r)
    BY <1>1, <1>5, <1>9, <2>1, <2>3 DEF Running
  <2> QED BY <1>1, <2>3, <2>4, <2>5, <2>6 DEF Stacked
<1> QED BY <1>7, <1>8, <1>9

-----------------------------------------------------------------------------
\* Taking an exception

LEMMA Pushed ==
    ASSUME Inv, NEW q, q.cpsr = p.cpsr, NEW m \in SavedModes, NEW pc \in Word,
           Entered(q, m, (pc + Back(m)) % WordSpace, p'), Push(m, pc)
    PROVE  Inv' /\ ~Returned
<1> DEFINE g == [mode |-> m, pc |-> pc, cpsr |-> p.cpsr, lr |-> 0,
                 spsr |-> ZeroStatus, phase |-> "entered", exposed |-> FALSE]
<1>1. frames \in Seq(Frame) /\ Stacked(frames, p) /\ Good(p)
      /\ Len(frames) <= taken /\ taken \in 0 .. MaxExceptions
  BY DEF Inv, TypeOK
<1>2. p.cpsr \in Status /\ p.cpsr.mode \in ValidModes
  BY <1>1 DEF Good, Processors
<1>3. /\ g \in Frame /\ g.cpsr = p.cpsr /\ g.phase = "entered"
      /\ g.mode = m /\ g.pc = pc
  <2>1. 0 \in Word /\ ZeroStatus \in Status
    BY WordSpaceAssumption DEF Word, ZeroStatus, Status
  <2> QED BY <1>2, <2>1 DEF Frame, Phases
<1>4. /\ frames' = Append(Exposing(frames), g)
      /\ taken < MaxExceptions /\ taken' = taken + 1
  BY DEF Push, Exposing, Top, Last
<1> HIDE DEF g
<1>5. Good(p') /\ p'.cpsr.mode = g.mode /\ InBank(g, p')
  BY <1>3 DEF Entered, InBank, ReturnLink
<1>6. frames' \in Seq(Frame) /\ Len(frames') = Len(frames) + 1
      /\ Stacked(frames', p')
  BY <1>1, <1>2, <1>3, <1>4, <1>5, FrameEntered
<1>7. Len(frames) \in Nat
  BY <1>1
<1>8. Len(frames') <= taken' /\ taken' \in 0 .. MaxExceptions
  BY <1>1, <1>4, <1>6, <1>7, NestingAssumption
<1>9. TypeOK'
  BY <1>5, <1>6, <1>8 DEF TypeOK, Good
<1>10. ~Returned
  BY <1>6, <1>7 DEF Returned
<1> QED BY <1>5, <1>6, <1>9, <1>10 DEF Inv

LEMMA TakeIRQSafe ==
    ASSUME Inv, TakeIRQ
    PROVE  Inv' /\ ~Returned
<1>1. Good(p) /\ PC(p) \in Word
  BY Reads DEF Inv
<1>2. irqMode \in SavedModes /\ irqMode # supervisorMode
  BY DEF SavedModes, irqMode, supervisorMode
<1>3. ReturnAddress(p) = (PC(p) + Back(irqMode)) % WordSpace
  BY <1>2 DEF ReturnAddress, Back
<1>4. ReturnAddress(p) \in Word /\ 24 \in Word
  BY <1>1, WordSpaceAssumption DEF ReturnAddress, Word
<1>5. p' = EnterException(p, irqMode, ReturnAddress(p), 24).p
  BY DEF TakeIRQ, SendIRQ
<1>6. Entered(p, irqMode, ReturnAddress(p), p')
  BY <1>1, <1>2, <1>4, <1>5, ExceptionEnters
<1> QED BY <1>1, <1>2, <1>3, <1>6, Pushed DEF TakeIRQ

LEMMA TakeFIQSafe ==
    ASSUME Inv, TakeFIQ
    PROVE  Inv' /\ ~Returned
<1>1. Good(p) /\ PC(p) \in Word
  BY Reads DEF Inv
<1>2. fiqMode \in SavedModes /\ fiqMode # supervisorMode
  BY DEF SavedModes, fiqMode, supervisorMode
<1>3. ReturnAddress(p) = (PC(p) + Back(fiqMode)) % WordSpace
  BY <1>2 DEF ReturnAddress, Back
<1>4. ReturnAddress(p) \in Word /\ 28 \in Word
  BY <1>1, WordSpaceAssumption DEF ReturnAddress, Word
<1>5. p' = EnterException(p, fiqMode, ReturnAddress(p), 28).p
  BY DEF TakeFIQ, SendFIQ
<1>6. Entered(p, fiqMode, ReturnAddress(p), p')
  BY <1>1, <1>2, <1>4, <1>5, ExceptionEnters
<1> QED BY <1>1, <1>2, <1>3, <1>6, Pushed DEF TakeFIQ

LEMMA CallSupervisorSafe ==
    ASSUME Inv, CallSupervisor
    PROVE  Inv' /\ ~Returned
<1> DEFINE q == Fetched(p)
           r == EnterException(q, supervisorMode, PC(q), 8).p
<1>1. Good(p)
  BY DEF Inv
<1>2. Good(q) /\ q.cpsr = p.cpsr
  BY <1>1, FetchedReads
<1>3. p' = r \/ p' = SetTHUMBMode(r, FALSE).p
  BY DEF CallSupervisor, SoftwareInterrupt, SoftwareInterruptTHUMB
<1>4. Push(supervisorMode, PC(q))
  BY DEF CallSupervisor
<1> HIDE DEF q
<1>5. PC(q) \in Word
  BY <1>2, Reads
<1>6. supervisorMode \in SavedModes
  BY DEF SavedModes
<1>7. 8 \in Word
  BY WordSpaceAssumption DEF Word
<1>8. Entered(q, supervisorMode, PC(q), r)
  BY <1>2, <1>5, <1>6, <1>7, ExceptionEnters
<1> HIDE DEF r
<1>9. Entered(q, supervisorMode, PC(q), SetTHUMBMode(r, FALSE).p)
  <2> DEFINE t == SetTHUMBMode(r, FALSE).p
  <2>1. Good(r) /\ r.cpsr.mode = supervisorMode
    BY <1>8 DEF Entered
  <2>2. Good(t)
    BY <2>1, SetTHUMBModeKeeps DEF Keeps
  <2>3. t.cpsr.mode = r.cpsr.mode /\ t.regs = r.regs /\ t.spsr = r.spsr
    BY <2>1 DEF SetTHUMBMode, Done, Good, Processors, Status
  <2> HIDE DEF t
  <2>4. GetRegister(t, 14).value = GetRegister(r, 14).value
        /\ GetSPSR(t) = GetSPSR(r)
    BY <2>1, <2>2, <2>3, SameReads
  <2>5. Entered(q, supervisorMode, PC(q), t)
    BY <1>8, <2>1, <2>2, <2>3, <2>4 DEF Entered
  <2> QED BY <2>5 DEF t
<1>10. PC(q) = (PC(q) + Back(supervisorMode)) % WordSpace
  BY <1>5, WordSpaceAssumption DEF Back, Word
<1>11. Entered(q, supervisorMode, (PC(q) + Back(supervisorMode)) % WordSpace, p')
  BY <1>3, <1>8, <1>9, <1>10
<1> QED BY <1>2, <1>4, <1>5, <1>6, <1>11, Pushed

-----------------------------------------------------------------------------
\* Ordinary code

LEMMA RunsOn ==
    ASSUME Inv, Good(p'), p'.cpsr.mode = p.cpsr.mode, MayCall,
           UNCHANGED <<frames, taken>>
    PROVE  Inv' /\ ~Returned
<1>1. frames # <<>> => frames[Len(frames)].phase = "saved"
  BY DEF MayCall, Top, Last
<1>2. Stacked(frames', p')
  BY <1>1, LastRunsOn DEF Inv
<1>3. TypeOK'
  BY DEF Inv, TypeOK, Good
<1>4. ~Returned
  BY DEF Returned, Inv, TypeOK
<1> QED BY <1>2, <1>3, <1>4 DEF Inv

\* A masked interrupt changes nothing.
LEMMA TakeMaskedSafe ==
    ASSUME Inv, TakeMasked
    PROVE  Inv' /\ ~Returned
<1>1. p' = p /\ frames' = frames /\ taken' = taken
  BY DEF TakeMasked, SendIRQ, SendFIQ, Done
<1> QED BY <1>1 DEF Inv, TypeOK, Returned

LEMMA FlagsStored ==
    ASSUME NEW q, Good(q), NEW f \in Status,
           NEW r, r = [q EXCEPT !.cpsr = WithFlags(@, f)]
    PROVE  /\ Good(r) /\ r.cpsr.mode = q.cpsr.mode
           /\ r.regs = q.regs /\ r.spsr = q.spsr
<1>1. WithFlags(q.cpsr, f) \in Status /\ WithFlags(q.cpsr, f).mode = q.cpsr.mode
  BY DEF Good, Processors, Status, WithFlags
<1>2. Good(r) /\ r.cpsr = WithFlags(q.cpsr, f) /\ r.regs = q.regs
  BY <1>1, ReplaceCPSR DEF Good
<1>3. r.spsr = q.spsr
  BY DEF Good, Processors
<1> QED BY <1>1, <1>2, <1>3

LEMMA CompareSafe ==
    ASSUME Inv, Compare
    PROVE  Inv' /\ ~Returned
<1> DEFINE q == Fetched(p)
<1>1. Good(q) /\ q.cpsr = p.cpsr
  BY FetchedReads DEF Inv
<1>2. PICK f \in GuestFlags :
        p' = DataProcessing(q, [rd |-> 0, result |-> 0, flags |-> f,
                                writes |-> FALSE, s |-> TRUE]).p
  BY DEF Compare
<1> HIDE DEF q
<1>3. p' = [q EXCEPT !.cpsr = WithFlags(@, f)]
  BY <1>2 DEF DataProcessing, Done
<1>4. f \in Status
  BY NestingAssumption
<1>5. Good(p') /\ p'.cpsr.mode = p.cpsr.mode
  <2>1. ASSUME NEW r, r = [q EXCEPT !.cpsr = WithFlags(@, f)]
        PROVE  Good(r) /\ r.cpsr.mode = q.cpsr.mode
    BY <1>1, <1>4, <2>1, FlagsStored
  <2> QED BY <1>1, <1>3, <2>1
<1> QED BY <1>5, RunsOn DEF Compare

LEMMA BranchToSafe ==
    ASSUME Inv, BranchTo
    PROVE  Inv' /\ ~Returned
<1> DEFINE q == Fetched(p)
<1>1. Good(q) /\ q.cpsr = p.cpsr
  BY FetchedReads DEF Inv
<1>2. PICK x \in Targets : p' = SetRegister(q, 15, x).p
  BY DEF BranchTo, Branch
<1> HIDE DEF q
<1>3. Good(p') /\ p'.cpsr = q.cpsr
  BY <1>1, <1>2, NestingAssumption, WritesPC
<1> QED BY <1>1, <1>3, RunsOn DEF BranchTo

\* A write to the CPSR that names the mode it is in leaves it in that mode.
LEMMA MaskSafe ==
    ASSUME Inv, Mask
    PROVE  Inv' /\ ~Returned
<1> DEFINE q == Fetched(p)
<1>1. Good(q) /\ q.cpsr = p.cpsr /\ Good(p)
  BY FetchedReads DEF Inv
<1>2. PICK m \in GuestMasks :
        p' = WritePSR(q, TRUE, FALSE, 0,
               [p.cpsr EXCEPT !.irqDisabled = m[1], !.fiqDisabled = m[2]]).p
  BY DEF Mask
<1> DEFINE s == [p.cpsr EXCEPT !.irqDisabled = m[1], !.fiqDisabled = m[2]]
<1>3. s \in Status /\ s.mode = p.cpsr.mode
  <2>1. m[1] \in BOOLEAN /\ m[2] \in BOOLEAN
    BY NestingAssumption
  <2> QED BY <1>1, <2>1 DEF Good, Processors, Status
<1> HIDE DEF q, s
<1> DEFINE w == IF q.cpsr.mode = userMode THEN WithFlags(q.cpsr, s) ELSE s
<1>4. w \in Status /\ w.mode = q.cpsr.mode
  BY <1>1, <1>3 DEF Good, Processors, Status, WithFlags
<1>5. p' = SetCPSR(q, w).p
  BY <1>2 DEF WritePSR, s
<1> HIDE DEF w
<1>6. Good(p')
  BY <1>1, <1>4, <1>5, SetCPSRKeeps DEF Keeps
<1>7. p'.cpsr.mode = p.cpsr.mode
  <2>1. p'.cpsr = IF q.cpsr.mode = userMode THEN WithFlags(q.cpsr, w) ELSE w
    BY <1>1, <1>4, <1>5, SetCPSRStores DEF Good
  <2>2. WithFlags(q.cpsr, w).mode = q.cpsr.mode
    BY <1>1, <1>4 DEF Good, Processors, Status, WithFlags
  <2> QED BY <1>1, <1>4, <2>1, <2>2
<1> QED BY <1>6, <1>7, RunsOn DEF Mask

-----------------------------------------------------------------------------
\* The handler's own steps

LEMMA TopFrame ==
    ASSUME Inv, frames # <<>>
    PROVE  /\ Top = frames[Len(frames)] /\ Top \in Frame
           /\ Top.cpsr.mode \in ValidModes
           /\ Running(Top, p)
<1>1. Len(frames) \in Nat \ {0} /\ frames[Len(frames)] \in Frame
  BY FrontOfSeq DEF Inv, TypeOK
<1>2. Top = frames[Len(frames)]
  BY DEF Top, Last
<1> QED BY <1>1, <1>2 DEF Inv, Stacked

\* The last frame changes, the others and the count stay.
LEMMA MovesOn ==
    ASSUME Inv, frames # <<>>, Good(p'), NEW e \in Frame, e.cpsr = Top.cpsr,
           Running(e, p'), frames' = WithLast(frames, e), UNCHANGED taken
    PROVE  Inv' /\ ~Returned
<1>1. frames \in Seq(Frame) /\ Stacked(frames, p)
  BY DEF Inv, TypeOK
<1>2. e.cpsr = frames[Len(frames)].cpsr
  BY TopFrame
<1>3. frames' \in Seq(Frame) /\ Len(frames') = Len(frames) /\ Stacked(frames', p')
  BY <1>1, <1>2, LastMovesOn
<1>4. TypeOK'
  BY <1>3 DEF Inv, TypeOK, Good
<1>5. ~Returned
  BY <1>1, <1>3 DEF Returned
<1> QED BY <1>3, <1>4, <1>5 DEF Inv

\* What the banks hold is what the frame gets.
LEMMA SaveStateSafe ==
    ASSUME Inv, SaveState
    PROVE  Inv' /\ ~Returned
<1>1. Good(p) /\ frames # <<>>
  BY DEF Inv, SaveState, InHandler
<1>2. Top.phase = "entered" /\ p' = Fetched(p) /\ taken' = taken
  BY DEF SaveState, InHandler
<1>3. Good(p') /\ p'.cpsr = p.cpsr
  BY <1>1, <1>2, FetchedReads
<1>4. GetRegister(p, 14).value \in Word /\ GetSPSR(p).value \in Status
  BY <1>1, Reads
<1>5. Top \in Frame /\ Running(Top, p)
  BY <1>1, TopFrame
<1> DEFINE e == [Top EXCEPT !.phase = "saved", !.lr = GetRegister(p, 14).value,
                            !.spsr = GetSPSR(p).value]
<1>6. frames' = WithLast(frames, e)
  BY DEF SaveState, WithLast
<1>7. /\ e \in Frame /\ e.phase = "saved" /\ e.lr = GetRegister(p, 14).value
      /\ e.spsr = GetSPSR(p).value /\ e.cpsr = Top.cpsr /\ e.pc = Top.pc
      /\ e.mode = Top.mode /\ e.exposed = Top.exposed
  BY <1>4, <1>5 DEF Frame, Phases
<1> HIDE DEF e
<1>8. Running(e, p')
  BY <1>2, <1>3, <1>5, <1>7 DEF Running, InBank, Held, ReturnLink
<1> QED BY <1>1, <1>2, <1>3, <1>6, <1>7, <1>8, MovesOn

\* What the frame holds is what the banks get.
LEMMA RestoreStateSafe ==
    ASSUME Inv, RestoreState
    PROVE  Inv' /\ ~Returned
<1> DEFINE q == SetRegister(Fetched(p), 14, Top.lr).p
           e == [Top EXCEPT !.phase = "restored"]
<1>1. Good(p) /\ frames # <<>>
  BY DEF Inv, RestoreState, InHandler
<1>2. Top \in Frame /\ Running(Top, p)
  BY <1>1, TopFrame
<1>3. Top.lr \in Word /\ Top.spsr \in Status /\ Top.mode \in SavedModes
  BY <1>2 DEF Frame
<1>4. Top.phase = "saved" /\ p' = WritePSR(q, FALSE, FALSE, 0, Top.spsr).p
      /\ taken' = taken
  BY DEF RestoreState, InHandler
<1>5. /\ Good(q) /\ q.cpsr = p.cpsr
      /\ GetRegister(q, 14).value = Top.lr
  <2>1. Good(Fetched(p)) /\ Fetched(p).cpsr = p.cpsr
    BY <1>1, FetchedReads
  <2> QED BY <1>3, <2>1, WritesLink
<1>6. frames' = WithLast(frames, e)
  BY DEF RestoreState, WithLast
<1>7. /\ e \in Frame /\ e.phase = "restored" /\ e.cpsr = Top.cpsr
      /\ e.pc = Top.pc /\ e.mode = Top.mode /\ e.exposed = Top.exposed
  BY <1>2 DEF Frame, Phases
<1> HIDE DEF q, e
<1>8. Good(p')
  <2>1. \A s \in Status : Good(SetSPSR(q, s).p)
    BY <1>5, SetSPSRKeeps DEF Keeps
  <2>2. GetSPSR(q).value \in Status
    BY <1>5, Reads
  <2>3. WithFlags(GetSPSR(q).value, Top.spsr) \in Status
    BY <1>3, <2>2 DEF Status, WithFlags
  <2>4. p' = q \/ \E s \in Status : p' = SetSPSR(q, s).p
    BY <1>3, <1>4, <2>3 DEF WritePSR, Fail
  <2> QED BY <1>5, <2>1, <2>4
<1>9. Running(e, p')
  <2> SUFFICES ASSUME ~Top.exposed
               PROVE  p'.cpsr.mode = e.mode /\ InBank(e, p')
    BY <1>7 DEF Running
  <2>1. p.cpsr.mode = Top.mode /\ Held(Top)
    BY <1>2, <1>4 DEF Running
  <2>2. q.cpsr.mode \in SavedModes /\ q.cpsr.mode # userMode
    BY <1>3, <1>5, <2>1 DEF SavedModes, userMode, fiqMode, irqMode,
        supervisorMode, abortMode, undefinedMode
  <2>3. p' = SetSPSR(q, Top.spsr).p
    BY <1>4, <2>2 DEF WritePSR
  <2>4. p'.cpsr = q.cpsr /\ p'.regs = q.regs
    BY <1>3, <1>5, <2>3, SetSPSRKeeps
  <2>5. GetSPSR(p').value = Top.spsr
    <3>1. p'.spsr = [q.spsr EXCEPT ![q.cpsr.mode] = Top.spsr]
      BY <1>5, <2>2, <2>3 DEF SetSPSR, Done, Good, Processors
    <3>2. p'.spsr[q.cpsr.mode] = Top.spsr
      BY <1>5, <2>2, <3>1 DEF Good, Processors
    <3> QED BY <2>2, <2>4, <3>2 DEF GetSPSR
  <2>6. GetRegister(p', 14).value = GetRegister(q, 14).value
    BY <1>5, <1>8, <2>4, Reads
  <2> QED BY <1>5, <1>7, <2>1, <2>4, <2>5, <2>6 DEF InBank, Held, ReturnLink
<1> QED BY <1>1, <1>4, <1>6, <1>7, <1>8, <1>9, MovesOn

\* An instruction with S set that writes the pc puts the SPSR into the CPSR.
LEMMA ReturnInstruction ==
    ASSUME NEW q, Good(q), NEW x \in Word,
           NEW r, r = DataProcessing(q, [rd |-> 15, result |-> x,
                        flags |-> ZeroStatus, writes |-> TRUE, s |-> TRUE]).p
    PROVE  /\ Good(r)
           /\ q.cpsr.mode \in SavedModes /\ GetSPSR(q).value.mode \in ValidModes
                => r.cpsr = GetSPSR(q).value /\ PC(r) = x
<1> DEFINE f == [q EXCEPT !.cpsr = WithFlags(@, ZeroStatus)]
           w == SetRegister(f, 15, x).p
<1>1. ZeroStatus \in Status
  BY DEF ZeroStatus, Status
<1>2. /\ Good(f) /\ f.cpsr.mode = q.cpsr.mode
      /\ f.regs = q.regs /\ f.spsr = q.spsr
  <2>1. ASSUME NEW t, t = f
        PROVE  /\ Good(t) /\ t.cpsr.mode = q.cpsr.mode
               /\ t.regs = q.regs /\ t.spsr = q.spsr
    BY <1>1, <2>1, FlagsStored
  <2> QED BY <2>1
<1>3. r = IF GetSPSR(w).ok THEN SetCPSR(w, GetSPSR(w).value).p ELSE w
  BY DEF DataProcessing, Fail
<1> HIDE DEF f
<1>4. Good(w) /\ w.cpsr = f.cpsr /\ w.spsr = f.spsr /\ PC(w) = x
  BY <1>2, WritesPC
<1> HIDE DEF w
<1>5. GetSPSR(w) = GetSPSR(q)
  BY <1>2, <1>4 DEF GetSPSR
<1>6. GetSPSR(w).value \in Status
  BY <1>4, Reads
<1>7. Good(SetCPSR(w, GetSPSR(w).value).p)
      /\ SetCPSR(w, GetSPSR(w).value).p.regs = w.regs
  BY <1>4, <1>6, SetCPSRKeeps DEF Keeps
<1>8. Good(r)
  BY <1>3, <1>4, <1>7
<1>9. ASSUME q.cpsr.mode \in SavedModes, GetSPSR(q).value.mode \in ValidModes
      PROVE  r.cpsr = GetSPSR(q).value /\ PC(r) = x
  <2>1. GetSPSR(w).ok /\ w.cpsr.mode # userMode
    BY <1>2, <1>4, <1>9 DEF GetSPSR, SavedModes, userMode, fiqMode, irqMode,
        supervisorMode, abortMode, undefinedMode
  <2>2. r = SetCPSR(w, GetSPSR(w).value).p
    BY <1>3, <2>1
  <2>3. r.cpsr = GetSPSR(w).value
    BY <1>4, <1>5, <1>6, <1>9, <2>1, <2>2, SetCPSRStores
  <2>4. PC(r) = PC(w)
    BY <1>4, <1>7, <1>8, <2>2, Reads
  <2> QED BY <1>4, <1>5, <2>3, <2>4
<1> QED BY <1>8, <1>9

\* Taking away what the exception added, over a wrap too.
LEMMA BackAndForth ==
    ASSUME NEW x \in Word, NEW b \in {0, 4}
    PROVE  (((x + b) % WordSpace) - b) % WordSpace = x
<1>1. x \in Nat /\ x < WordSpace /\ WordSpace \in Nat /\ WordSpace > 28
  BY WordSpaceAssumption DEF Word
<1>2. CASE x + b < WordSpace
  BY <1>1, <1>2
<1>3. CASE x + b >= WordSpace
  <2>1. (x + b) % WordSpace = x + b - WordSpace
    BY <1>1, <1>3
  <2>2. (x - WordSpace) % WordSpace = x
    BY <1>1
  <2> QED BY <1>1, <2>1, <2>2
<1> QED BY <1>1, <1>2, <1>3

\* The frame that goes gets back what it interrupted.
LEMMA ReturnSafe ==
    ASSUME Inv, Return
    PROVE  Inv' /\ (~Top.exposed => Resumes(Top))
<1> DEFINE q == Fetched(p)
           x == (GetRegister(p, 14).value - Back(Top.mode)) % WordSpace
<1>1. Good(p) /\ frames # <<>> /\ Top.phase # "saved"
  BY DEF Inv, Return, InHandler
<1>2. /\ Top = frames[Len(frames)] /\ Top \in Frame
      /\ Top.cpsr.mode \in ValidModes /\ Running(Top, p)
  BY <1>1, TopFrame
<1>3. Top.mode \in SavedModes /\ Top.pc \in Word
  BY <1>2 DEF Frame
<1>4. p' = DataProcessing(q, [rd |-> 15, result |-> x, flags |-> ZeroStatus,
                              writes |-> TRUE, s |-> TRUE]).p
  BY DEF Return, Back
<1>5. /\ Good(q) /\ q.cpsr = p.cpsr /\ q.spsr = p.spsr
  BY <1>1, FetchedReads
<1>6. x \in Word
  <2>1. GetRegister(p, 14).value \in Int /\ Back(Top.mode) \in Int
    BY <1>1, Reads, WordSpaceAssumption DEF Word, Back
  <2> QED BY <2>1, WordSpaceAssumption DEF Word
<1>7. frames' = Uncovered(frames) /\ taken' = taken
  BY <1>2 DEF Return, Uncovered
<1> HIDE DEF q
<1>8. ASSUME ~Top.exposed
      PROVE  /\ p.cpsr.mode = Top.mode /\ GetSPSR(p).value = Top.cpsr
             /\ x = Top.pc
  <2>1. /\ p.cpsr.mode = Top.mode /\ GetSPSR(p).value = Top.cpsr
        /\ GetRegister(p, 14).value = (Top.pc + Back(Top.mode)) % WordSpace
    BY <1>1, <1>2, <1>8 DEF Running, InBank, ReturnLink
  <2>2. Back(Top.mode) \in {0, 4}
    BY DEF Back
  <2>3. x = Top.pc
    BY <1>3, <2>1, <2>2, BackAndForth
  <2> QED BY <2>1, <2>3
<1> HIDE DEF x
<1>9. /\ Good(p')
      /\ q.cpsr.mode \in SavedModes /\ GetSPSR(q).value.mode \in ValidModes
           => p'.cpsr = GetSPSR(q).value /\ PC(p') = x
  BY <1>4, <1>5, <1>6, ReturnInstruction
<1>10. GetSPSR(q) = GetSPSR(p)
  BY <1>5 DEF GetSPSR
<1>11. ~Top.exposed => p'.cpsr = Top.cpsr /\ PC(p') = Top.pc
  BY <1>2, <1>3, <1>5, <1>8, <1>9, <1>10
<1>12. frames' \in Seq(Frame) /\ Len(frames') = Len(frames) - 1
       /\ Stacked(frames', p')
  <2>1. frames \in Seq(Frame) /\ Stacked(frames, p)
    BY DEF Inv, TypeOK
  <2>2. ~frames[Len(frames)].exposed => p'.cpsr = frames[Len(frames)].cpsr
    BY <1>2, <1>11
  <2> QED BY <1>1, <1>7, <2>1, <2>2, FrameReturned
<1>13. TypeOK'
  <2>1. Len(frames) \in Nat /\ Len(frames) <= taken /\ taken \in 0 .. MaxExceptions
    BY DEF Inv, TypeOK
  <2> QED BY <1>7, <1>9, <1>12, <2>1, NestingAssumption DEF TypeOK, Good
<1> QED BY <1>9, <1>11, <1>12, <1>13 DEF Inv, Resumes

-----------------------------------------------------------------------------
\* The theorems

LEMMA InitSafe == Init => Inv
<1> SUFFICES ASSUME Init PROVE Inv
  OBVIOUS
<1>1. PICK thumb \in ProgramStates : p = SetTHUMBMode(NewARMProcessor, thumb).p
  BY DEF Init
<1>2. thumb \in BOOLEAN
  BY NestingAssumption
<1>3. Good(p)
  BY <1>1, <1>2, NewProcessorGood, SetTHUMBModeKeeps DEF Keeps
<1>4. frames = <<>> /\ taken = 0
  BY DEF Init
<1>5. Stacked(frames, p)
  BY <1>4 DEF Stacked
<1>6. TypeOK
  BY <1>3, <1>4, NestingAssumption DEF TypeOK, Good
<1> QED BY <1>3, <1>5, <1>6 DEF Inv

LEMMA NextSafe ==
    ASSUME Inv, [Next]_vars
    PROVE  Inv' /\ (Returned /\ ~Top.exposed => Resumes(Top))
<1>1. CASE TakeIRQ
  BY <1>1, TakeIRQSafe
<1>2. CASE TakeFIQ
  BY <1>2, TakeFIQSafe
<1>3. CASE TakeMasked
  BY <1>3, TakeMaskedSafe
<1>4. CASE CallSupervisor
  BY <1>4, CallSupervisorSafe
<1>5. CASE Compare
  BY <1>5, CompareSafe
<1>6. CASE BranchTo
  BY <1>6, BranchToSafe
<1>7. CASE Mask
  BY <1>7, MaskSafe
<1>8. CASE SaveState
  BY <1>8, SaveStateSafe
<1>9. CASE RestoreState
  BY <1>9, RestoreStateSafe
<1>10. CASE Return
  BY <1>10, ReturnSafe
<1>11. CASE UNCHANGED vars
  BY <1>11 DEF vars, Inv, TypeOK, Returned
<1> QED BY <1>1, <1>2, <1>3, <1>4, <1>5, <1>6, <1>7, <1>8, <1>9, <1>10, <1>11
        DEF Next

\* In every state the frames could all be returned from.
THEOREM NestingInvariant == Spec => []Inv
<1>1. Inv /\ [Next]_vars => Inv'
  BY NextSafe
<1> QED BY InitSafe, <1>1, PTL DEF Spec

\* The processor stays typed, and no more handlers are active than exceptions
\* were taken (SendIRQ, SendFIQ and the SWI handlers).
THEOREM NestingTypeCorrect == Spec => []TypeOK
<1>1. Inv => TypeOK
  BY DEF Inv
<1> QED BY NestingInvariant, <1>1, PTL

\* The lr and SPSR that SetMode and the exception entries leave for a handler
\* are where its return will look for them, through every exception between.
THEOREM ReturnStateIsKept == Spec => []ReturnStateKept
<1>1. Inv => ReturnStateKept
  <2> SUFFICES ASSUME Inv, frames # <<>>, ~Top.exposed
               PROVE  /\ p.cpsr.mode = Top.mode
                      /\ IF Top.phase = "saved" THEN Held(Top) ELSE InBank(Top, p)
    BY DEF ReturnStateKept, Held, InBank, ReturnLink, Back
  <2> QED BY TopFrame DEF Running
<1> QED BY NestingInvariant, <1>1, PTL

\* A handler that saves its state returns to the pc, the mode and the flags it
\* interrupted, whatever interrupted it, to any depth and for any word size.
THEOREM SavingHandlersDoReturn == Spec => SavingHandlersReturn
<1>1. Inv /\ [Next]_vars => [Returned /\ ~Top.exposed => Resumes(Top)]_vars
  BY NextSafe
<1> QED BY NestingInvariant, <1>1, PTL DEF Spec, SavingHandlersReturn
=============================================================================
