-------------------------- MODULE GuestControlProofs ------------------------
(***************************************************************************)
(* Proofs that no guest program breaks the control of the processor, for   *)
(* any word size, any operands and any length of the program.              *)
(***************************************************************************)
EXTENDS GuestControl, ProcessorLemmas, TLAPS

-----------------------------------------------------------------------------
\* What leaves the control of the processor alone

\* r is q but for flags, the T bit and registers that the mode of q can name.
Contained(q, r) ==
    /\ Good(r)
    /\ Control(r.cpsr) = Control(q.cpsr)
    /\ r.spsr = q.spsr
    /\ \A s \in Slots : r.regs[s] # q.regs[s] => s[1] \in {userMode, q.cpsr.mode}

\* r is q but for registers and the SPSR of the modes it started and ended in.
Reaches(q, r) ==
    /\ Good(r)
    /\ \A m \in SavedModes : r.spsr[m] # q.spsr[m] => r.cpsr.mode = m
    /\ \A s \in Slots : r.regs[s] # q.regs[s]
                            => s[1] \in {userMode, q.cpsr.mode, r.cpsr.mode}

\* What any instruction but swi promises.
Outcome(q, result) ==
    /\ result.ok \in BOOLEAN
    /\ Reaches(q, result.p)
    /\ ~result.ok \/ q.cpsr.mode = userMode => Contained(q, result.p)

LEMMA ContainedIsReflexive ==
    ASSUME NEW q, Good(q)
    PROVE  Contained(q, q)
BY DEF Contained

LEMMA ContainedIsTransitive ==
    ASSUME NEW q, NEW r, NEW t, Contained(q, r), Contained(r, t)
    PROVE  Contained(q, t)
BY DEF Contained, Control

LEMMA ContainedIsOutcome ==
    ASSUME NEW q, NEW result, result.ok \in BOOLEAN, Contained(q, result.p)
    PROVE  Outcome(q, result)
BY DEF Contained, Control, Outcome, Reaches

\* An outcome may be preceded by steps that leave the control alone.
LEMMA OutcomeAfterContained ==
    ASSUME NEW q, NEW r, NEW result, Contained(q, r), Outcome(r, result)
    PROVE  Outcome(q, result)
BY DEF Contained, Control, Outcome, Reaches

LEMMA OutcomeBeforeContained ==
    ASSUME NEW q, NEW result, NEW last, Outcome(q, result), result.ok,
           last.ok, Contained(result.p, last.p)
    PROVE  Outcome(q, last)
BY DEF Contained, Control, Outcome, Reaches

\* A register is stored in the user bank or in the one of its mode.
LEMMA SlotBank ==
    ASSUME NEW mode \in ValidModes, NEW n \in 0 .. 15
    PROVE  RegisterSlot(mode, n)[1] \in {userMode, mode}
BY DEF RegisterSlot

LEMMA SetRegisterIsContained ==
    ASSUME NEW q, Good(q), NEW n \in Nat, NEW x \in Word
    PROVE  Contained(q, SetRegister(q, n, x).p)
<1>1. CASE n > 15
  BY <1>1, ContainedIsReflexive DEF SetRegister, Fail
<1>2. CASE n \in 0 .. 15
  <2> DEFINE r == SetRegister(q, n, x).p
  <2>1. Good(r) /\ r.cpsr = q.cpsr /\ r.spsr = q.spsr
    BY SetRegisterKeeps DEF Keeps
  <2>2. r.regs = [q.regs EXCEPT ![RegisterSlot(q.cpsr.mode, n)] = x]
    BY <1>2 DEF SetRegister, Done, Good, Processors
  <2>3. \A s \in Slots : r.regs[s] # q.regs[s] => s = RegisterSlot(q.cpsr.mode, n)
    BY <2>2 DEF Good, Processors
  <2>4. RegisterSlot(q.cpsr.mode, n)[1] \in {userMode, q.cpsr.mode}
    BY <1>2, SlotBank DEF Good
  <2> QED BY <2>1, <2>3, <2>4 DEF Contained
<1> QED BY <1>1, <1>2

\* A CPSR with the same control bits can be stored without a trace.
LEMMA ReplaceIsContained ==
    ASSUME NEW q, Good(q), NEW s \in Status, Control(s) = Control(q.cpsr)
    PROVE  Contained(q, [q EXCEPT !.cpsr = s])
<1>1. s.mode \in ValidModes
  BY DEF Good, Control
<1>2. Good([q EXCEPT !.cpsr = s])
  BY <1>1, ReplaceCPSR
<1>3. /\ [q EXCEPT !.cpsr = s].cpsr = s
      /\ [q EXCEPT !.cpsr = s].spsr = q.spsr
      /\ [q EXCEPT !.cpsr = s].regs = q.regs
  BY DEF Good, Processors
<1> QED BY <1>2, <1>3 DEF Contained


-----------------------------------------------------------------------------
\* The status registers

\* Flags and T can be stored without a trace.
LEMMA WithFlagsIsContained ==
    ASSUME NEW q, Good(q), NEW f \in Status
    PROVE  /\ WithFlags(q.cpsr, f) \in Status
           /\ WithFlags(q.cpsr, f).mode = q.cpsr.mode
           /\ Contained(q, [q EXCEPT !.cpsr = WithFlags(@, f)])
<1>1. /\ WithFlags(q.cpsr, f) \in Status
      /\ WithFlags(q.cpsr, f).mode = q.cpsr.mode
      /\ Control(WithFlags(q.cpsr, f)) = Control(q.cpsr)
  BY DEF Good, Processors, Status, WithFlags, Control
<1> QED BY <1>1, ReplaceIsContained

LEMMA SetTHUMBModeIsContained ==
    ASSUME NEW q, Good(q), NEW b \in BOOLEAN
    PROVE  Contained(q, SetTHUMBMode(q, b).p)
<1> DEFINE s == [q.cpsr EXCEPT !.thumb = b]
<1>1. s \in Status /\ Control(s) = Control(q.cpsr)
  BY DEF Good, Processors, Status, Control
<1>2. SetTHUMBMode(q, b).p = [q EXCEPT !.cpsr = s]
  BY DEF SetTHUMBMode, Done, Good, Processors
<1> QED BY <1>1, <1>2, ReplaceIsContained

\* User mode has no SPSR; any other mode writes its own.
LEMMA SetSPSROutcome ==
    ASSUME NEW q, Good(q), NEW s \in Status
    PROVE  Outcome(q, SetSPSR(q, s))
<1>1. CASE q.cpsr.mode \notin SavedModes
  <2>1. SetSPSR(q, s).p = q /\ SetSPSR(q, s).ok \in BOOLEAN
    BY <1>1 DEF SetSPSR, Fail
  <2> QED BY <2>1, ContainedIsReflexive, ContainedIsOutcome
<1>2. CASE q.cpsr.mode \in SavedModes
  <2>1. /\ Good(SetSPSR(q, s).p)
        /\ SetSPSR(q, s).p.cpsr = q.cpsr
        /\ SetSPSR(q, s).p.regs = q.regs
    BY SetSPSRKeeps DEF Keeps
  <2>2. SetSPSR(q, s).ok /\ SetSPSR(q, s).p.spsr = [q.spsr EXCEPT ![q.cpsr.mode] = s]
    BY <1>2 DEF SetSPSR, Done, Good, Processors
  <2>3. q.cpsr.mode # userMode
    BY <1>2 DEF SavedModes, userMode, fiqMode, irqMode, supervisorMode,
        abortMode, undefinedMode
  <2>4. \A k \in SavedModes \ {q.cpsr.mode} : SetSPSR(q, s).p.spsr[k] = q.spsr[k]
    BY <2>2 DEF Good, Processors
  <2> QED BY <2>1, <2>2, <2>3, <2>4 DEF Outcome, Reaches
<1> QED BY <1>1, <1>2

\* Outside user mode a status word takes its mode with it; in user mode every
\* caller passes the mode it has.
LEMMA SetCPSROutcome ==
    ASSUME NEW q, Good(q), NEW s \in Status,
           q.cpsr.mode = userMode => s.mode = userMode
    PROVE  Outcome(q, SetCPSR(q, s))
<1> DEFINE r == SetCPSR(q, s).p
<1>1. Keeps(q, SetCPSR(q, s)) /\ r.regs = q.regs
  BY SetCPSRKeeps
<1>2. CASE s.mode \notin ValidModes
  <2>1. ~SetCPSR(q, s).ok /\ r = q
    BY <1>1, <1>2, SetCPSRStores DEF Keeps
  <2> QED BY <1>1, <2>1, ContainedIsReflexive, ContainedIsOutcome DEF Keeps
<1>3. CASE s.mode \in ValidModes
  <2>1. /\ SetCPSR(q, s).ok
        /\ r.cpsr = IF q.cpsr.mode = userMode THEN WithFlags(q.cpsr, s) ELSE s
        /\ r.spsr = IF s.mode = q.cpsr.mode THEN q.spsr
                    ELSE Saving(q, s.mode, q.cpsr)
    BY <1>3, SetCPSRStores
  <2>2. Good(r)
    BY <1>1 DEF Keeps
  <2> HIDE DEF r
  <2>3. CASE q.cpsr.mode = userMode
    <3>1. Control(WithFlags(q.cpsr, s)) = Control(q.cpsr)
      BY DEF Good, Processors, Status, WithFlags, Control
    <3>2. Contained(q, r)
      BY <1>1, <2>1, <2>2, <2>3, <3>1 DEF Contained, r
    <3> QED BY <1>1, <3>2, ContainedIsOutcome DEF Keeps, r
  <2>4. CASE q.cpsr.mode # userMode
    <3>1. \A k \in SavedModes \ {s.mode} : r.spsr[k] = q.spsr[k]
      BY <2>1 DEF Saving, Good, Processors
    <3>2. Reaches(q, r)
      BY <1>1, <2>1, <2>2, <2>4, <3>1 DEF Reaches, r
    <3> QED BY <2>1, <2>4, <3>2 DEF Outcome, r
  <2> QED BY <2>3, <2>4
<1> QED BY <1>2, <1>3

\* What the SPSR reads as, where there is one.
LEMMA SavedStatus ==
    ASSUME NEW q, Good(q)
    PROVE  /\ GetSPSR(q).value \in Status
           /\ GetSPSR(q).ok \in BOOLEAN
           /\ GetSPSR(q).ok => q.cpsr.mode # userMode
<1>1. ZeroStatus \in Status
  BY DEF ZeroStatus, Status
<1>2. userMode \notin SavedModes
  BY DEF SavedModes, userMode, fiqMode, irqMode, supervisorMode, abortMode,
      undefinedMode
<1> QED BY <1>1, <1>2 DEF GetSPSR, Good, Processors

\* A failure after harmless steps, and a success.
LEMMA ContainedResults ==
    ASSUME NEW q, NEW r, Contained(q, r)
    PROVE  Outcome(q, Fail(r)) /\ Outcome(q, Done(r))
<1>1. /\ Fail(r).p = r /\ Fail(r).ok \in BOOLEAN
      /\ Done(r).p = r /\ Done(r).ok \in BOOLEAN
  BY DEF Fail, Done
<1> QED BY <1>1, ContainedIsOutcome

LEMMA SetRegisterOutcome ==
    ASSUME NEW q, NEW r, Good(q), Contained(q, r), NEW n \in Nat, NEW x \in Word
    PROVE  /\ Contained(q, SetRegister(r, n, x).p)
           /\ Outcome(q, SetRegister(r, n, x))
<1>1. Good(r)
  BY DEF Contained
<1>2. Contained(r, SetRegister(r, n, x).p) /\ SetRegister(r, n, x).ok \in BOOLEAN
  BY <1>1, SetRegisterIsContained, SetRegisterKeeps DEF Keeps
<1>3. Contained(q, SetRegister(r, n, x).p)
  BY <1>2, ContainedIsTransitive
<1> QED BY <1>2, <1>3, ContainedIsOutcome

-----------------------------------------------------------------------------
\* The instructions

\* The pc is a word, and moving it on is harmless.
LEMMA FetchedIsContained ==
    ASSUME NEW q, Good(q)
    PROVE  /\ PC(q) \in Word
           /\ Fetched(q) = [q EXCEPT !.regs = [@ EXCEPT ![<<userMode, 15>>] =
                 (PC(q) + (IF q.cpsr.thumb THEN 2 ELSE 4)) % WordSpace]]
           /\ Contained(q, Fetched(q))
<1> DEFINE x == (PC(q) + (IF q.cpsr.thumb THEN 2 ELSE 4)) % WordSpace
<1>1. PC(q) \in Word
  BY SlotExists DEF PC, GetRegister, Good, Processors
<1>2. x \in Word
  BY <1>1, WordSpaceAssumption DEF Word
<1>3. Fetched(q) = SetRegister(q, 15, x).p
  BY DEF Fetched
<1>4. RegisterSlot(q.cpsr.mode, 15) = <<userMode, 15>>
  BY DEF RegisterSlot
<1> HIDE DEF x
<1>5. SetRegister(q, 15, x).p = [q EXCEPT !.regs = [@ EXCEPT ![<<userMode, 15>>] = x]]
  BY <1>4 DEF SetRegister, Done
<1> QED BY <1>1, <1>2, <1>3, <1>5, SetRegisterIsContained DEF x

\* A data-processing instruction changes modes only by movs pc and its like,
\* and only in a mode that has an SPSR.
LEMMA DataProcessingOutcome ==
    ASSUME NEW q, Good(q), NEW d,
           d.rd \in 0 .. 15, d.result \in Word, d.flags \in Status
    PROVE  Outcome(q, DataProcessing(q, d))
<1> DEFINE e == [q EXCEPT !.cpsr = WithFlags(@, d.flags)]
           w == IF d.writes THEN SetRegister(e, d.rd, d.result).p ELSE e
<1>1. Contained(q, e)
  BY WithFlagsIsContained
<1>2. Contained(q, w)
  <2> HIDE DEF e
  <2>1. Contained(q, SetRegister(e, d.rd, d.result).p)
    <3>1. d.rd \in Nat
      OBVIOUS
    <3>2. ASSUME NEW n \in Nat, n = d.rd
          PROVE  Contained(q, SetRegister(e, n, d.result).p)
      BY <1>1, SetRegisterOutcome
    <3> QED BY <3>1, <3>2
  <2> QED BY <1>1, <2>1
<1>3. DataProcessing(q, d) =
        IF d.writes /\ d.rd = 15 /\ d.s
          THEN IF GetSPSR(w).ok THEN SetCPSR(w, GetSPSR(w).value) ELSE Fail(w)
        ELSE IF d.s THEN Done(w)
        ELSE SetCPSR(w, q.cpsr)
  BY DEF DataProcessing
<1> HIDE DEF w
<1>4. Good(w) /\ w.cpsr.mode = q.cpsr.mode
  BY <1>2 DEF Contained, Control
<1>5. GetSPSR(w).ok => Outcome(q, SetCPSR(w, GetSPSR(w).value))
  BY <1>2, <1>4, SavedStatus, SetCPSROutcome, OutcomeAfterContained
<1>6. Outcome(q, Fail(w)) /\ Outcome(q, Done(w))
  BY <1>2, ContainedResults
<1>7. Outcome(q, SetCPSR(w, q.cpsr))
  <2>1. q.cpsr \in Status
    BY DEF Good, Processors
  <2> QED BY <1>2, <1>4, <2>1, SetCPSROutcome, OutcomeAfterContained
<1> QED BY <1>3, <1>5, <1>6, <1>7

LEMMA ReadPSROutcome ==
    ASSUME NEW q, Good(q), NEW rd \in 0 .. 15, NEW useCPSR \in BOOLEAN,
           NEW word \in Word
    PROVE  Outcome(q, ReadPSR(q, rd, useCPSR, word))
<1>1. Contained(q, q)
  BY ContainedIsReflexive
<1>2. Outcome(q, Fail(q))
  BY <1>1, ContainedResults
<1>3. rd \in Nat
  OBVIOUS
<1>4. Outcome(q, SetRegister(q, rd, word))
  BY <1>1, <1>3, SetRegisterOutcome
<1> QED BY <1>2, <1>4 DEF ReadPSR

\* In user mode msr keeps all of the CPSR but the flags.
LEMMA WritePSROutcome ==
    ASSUME NEW q, Good(q), NEW useCPSR \in BOOLEAN, NEW flagsOnly \in BOOLEAN,
           NEW rm, NEW s \in Status
    PROVE  Outcome(q, WritePSR(q, useCPSR, flagsOnly, rm, s))
<1> DEFINE current == IF useCPSR THEN [value |-> q.cpsr, ok |-> TRUE] ELSE GetSPSR(q)
           masked  == flagsOnly \/ q.cpsr.mode = userMode
           value   == IF masked THEN WithFlags(current.value, s) ELSE s
<1>1. WritePSR(q, useCPSR, flagsOnly, rm, s) =
        IF rm = 15 \/ (masked /\ ~current.ok) THEN Fail(q)
        ELSE IF useCPSR THEN SetCPSR(q, value) ELSE SetSPSR(q, value)
  BY DEF WritePSR
<1>2. current.value \in Status /\ (useCPSR => current.value = q.cpsr)
  BY SavedStatus DEF Good, Processors
<1>3. /\ WithFlags(current.value, s) \in Status
      /\ WithFlags(current.value, s).mode = current.value.mode
  <2> HIDE DEF current
  <2> QED BY <1>2 DEF WithFlags, Status
<1>4. value \in Status
  BY <1>3
<1>5. useCPSR /\ q.cpsr.mode = userMode => value.mode = userMode
  BY <1>2, <1>3
<1> HIDE DEF current, masked, value
<1>6. Outcome(q, Fail(q))
  BY ContainedIsReflexive, ContainedResults
<1>7. useCPSR => Outcome(q, SetCPSR(q, value))
  BY <1>4, <1>5, SetCPSROutcome
<1>8. Outcome(q, SetSPSR(q, value))
  BY <1>4, SetSPSROutcome
<1> QED BY <1>1, <1>6, <1>7, <1>8

\* A load multiple writes registers of one bank, however far it gets.
LEMMA BlockDataLoadIsContained ==
    ASSUME NEW q, Good(q), NEW b, b.loaded \subseteq 0 .. 15,
           \A n \in b.loaded : b.word[n] \in Word
    PROVE  Contained(q, BlockDataLoad(q, b))
<1> DEFINE userBank == b.forceUser /\ 15 \notin b.list
           bank     == IF userBank THEN userMode ELSE q.cpsr.mode
           written  == {RegisterSlot(bank, n) : n \in b.loaded}
           number(slot) == CHOOSE n \in b.loaded : RegisterSlot(bank, n) = slot
           after    == [s \in Slots |-> IF s \in written THEN b.word[number(s)]
                                        ELSE q.regs[s]]
<1>1. BlockDataLoad(q, b) = [q EXCEPT !.regs = after]
  BY DEF BlockDataLoad
<1>2. bank \in ValidModes /\ bank \in {userMode, q.cpsr.mode}
  BY DEF Good, ValidModes
<1> HIDE DEF bank
<1>3. ASSUME NEW s \in written PROVE b.word[number(s)] \in Word
  BY <1>3
<1>4. after \in [Slots -> Word]
  BY <1>3 DEF Good, Processors
<1>5. ASSUME NEW s \in Slots, after[s] # q.regs[s]
      PROVE  s[1] \in {userMode, q.cpsr.mode}
  <2>1. PICK n \in b.loaded : s = RegisterSlot(bank, n)
    BY <1>5
  <2> QED BY <1>2, <2>1, SlotBank
<1> HIDE DEF after
<1>6. LET r == [q EXCEPT !.regs = after]
      IN  r \in Processors /\ r.cpsr = q.cpsr /\ r.spsr = q.spsr /\ r.regs = after
  BY <1>4 DEF Good, Processors
<1> QED BY <1>1, <1>5, <1>6 DEF Contained, Good

\* A load multiple restores the status only after all of its registers, and
\* only in a mode that has an SPSR.
LEMMA BlockDataTransferOutcome ==
    ASSUME NEW q, Good(q), NEW b, b.loaded \subseteq 0 .. 15,
           \A n \in b.loaded : b.word[n] \in Word,
           b.rn \in 0 .. 15, b.end \in Word
    PROVE  Outcome(q, BlockDataTransfer(q, b))
<1> DEFINE loaded == BlockDataLoad(q, b)
           based  == IF b.writeBack /\ b.rn \notin b.list
                       THEN SetRegister(loaded, b.rn, b.end).p ELSE loaded
<1>1. BlockDataTransfer(q, b) =
        IF b.loaded # b.list THEN Fail(loaded)
        ELSE IF ~(b.forceUser /\ 15 \in b.list) THEN Done(based)
        ELSE IF GetSPSR(based).ok THEN SetCPSR(based, GetSPSR(based).value)
        ELSE Fail(based)
  BY DEF BlockDataTransfer
<1>2. Contained(q, loaded)
  BY BlockDataLoadIsContained
<1> HIDE DEF loaded
<1>3. Contained(q, SetRegister(loaded, b.rn, b.end).p)
  <2>1. b.rn \in Nat
    OBVIOUS
  <2>2. ASSUME NEW n \in Nat, n = b.rn
        PROVE  Contained(q, SetRegister(loaded, n, b.end).p)
    BY <1>2, SetRegisterOutcome
  <2> QED BY <2>1, <2>2
<1>4. Contained(q, based)
  BY <1>2, <1>3
<1> HIDE DEF based
<1>5. Good(based)
  BY <1>4 DEF Contained
<1>6. GetSPSR(based).ok => Outcome(q, SetCPSR(based, GetSPSR(based).value))
  BY <1>4, <1>5, SavedStatus, SetCPSROutcome, OutcomeAfterContained
<1> QED BY <1>1, <1>2, <1>4, <1>6, ContainedResults

LEMMA BranchOutcome ==
    ASSUME NEW q, Good(q), NEW link \in BOOLEAN, NEW x \in Word
    PROVE  Outcome(q, Branch(q, link, x))
<1> DEFINE linked == IF link THEN SetRegister(q, 14, PC(q)).p ELSE q
<1>1. Contained(q, linked)
  BY FetchedIsContained, ContainedIsReflexive, SetRegisterIsContained
<1> HIDE DEF linked
<1>2. Outcome(q, SetRegister(linked, 15, x))
  BY <1>1, SetRegisterOutcome
<1> QED BY <1>2 DEF Branch, linked

LEMMA BranchExchangeOutcome ==
    ASSUME NEW q, Good(q), NEW x \in Word
    PROVE  /\ Outcome(q, BranchExchange(q, x))
           /\ Outcome(q, BranchExchangeTHUMB(q, x))
<1>1. ASSUME NEW state \in {q, SetTHUMBMode(q, TRUE).p, SetTHUMBMode(q, FALSE).p}
      PROVE  Outcome(q, SetRegister(state, 15, x))
  <2>1. Contained(q, state)
    BY ContainedIsReflexive, SetTHUMBModeIsContained
  <2> QED BY <2>1, SetRegisterOutcome
<1> QED BY <1>1 DEF BranchExchange, BranchExchangeTHUMB

-----------------------------------------------------------------------------
\* Exceptions

\* An exception touches its own mode only.
LEMMA EnterExceptionReaches ==
    ASSUME NEW q, Good(q), NEW m \in ValidModes, NEW x \in Word, NEW v \in Word
    PROVE  Reaches(q, EnterException(q, m, x, v).p)
<1> DEFINE r == EnterException(q, m, x, v).p
<1>1. /\ Good(r)
      /\ r.cpsr = Switched(q.cpsr, m)
      /\ r.spsr = Saving(q, m, q.cpsr)
      /\ r.regs = Linked(q, m, x, v)
  BY EnterExceptionStores
<1> HIDE DEF r
<1>2. r.cpsr.mode = m
  BY <1>1, SwitchedMode
<1>3. \A k \in SavedModes \ {m} : r.spsr[k] = q.spsr[k]
  BY <1>1 DEF Saving, Good, Processors
<1>4. \A s \in Slots : r.regs[s] # q.regs[s]
                         => s \in {RegisterSlot(m, 14), <<userMode, 15>>}
  BY <1>1 DEF Linked, Good, Processors
<1>5. RegisterSlot(m, 14)[1] \in {userMode, m} /\ <<userMode, 15>>[1] = userMode
  BY SlotBank
<1> QED BY <1>1, <1>2, <1>3, <1>4, <1>5 DEF Reaches, r

LEMMA ReachesAfterContained ==
    ASSUME NEW q, NEW r, NEW t, Contained(q, r), Reaches(r, t)
    PROVE  Reaches(q, t)
BY DEF Contained, Reaches, Control

-----------------------------------------------------------------------------
\* The steps of the guest and the host

\* What a step promises: to reach no bank but those of the modes it starts and
\* ends in, to leave the control alone when it fails, and to leave user mode
\* only by swi or an interrupt.
Step ==
    /\ ok' \in BOOLEAN
    /\ Reaches(p, p')
    /\ ~ok' => Contained(p, p')
    /\ p.cpsr.mode = userMode => \/ Contained(p, p')
                                 \/ CalledSupervisor
                                 \/ Interrupted

LEMMA OutcomeIsStep ==
    ASSUME NEW result, Good(p), Outcome(Fetched(p), result), Returns(result)
    PROVE  Step
<1>1. Outcome(p, result)
  BY FetchedIsContained, OutcomeAfterContained
<1> QED BY <1>1 DEF Outcome, Step, Returns

\* swi, in both states: q is the processor after the fetch, r after the entry.
LEMMA SupervisorCall ==
    ASSUME NEW q, NEW r, Good(p), q = Fetched(p),
           r = EnterException(q, supervisorMode, PC(q), 8).p
    PROVE  /\ Good(r) /\ Reaches(p, r)
           /\ r.cpsr = Switched(p.cpsr, supervisorMode)
           /\ r.spsr = Saving(p, supervisorMode, p.cpsr)
           /\ r.regs = Linked(p, supervisorMode,
                          (PC(p) + (IF p.cpsr.thumb THEN 2 ELSE 4)) % WordSpace, 8)
<1> DEFINE x == (PC(p) + (IF p.cpsr.thumb THEN 2 ELSE 4)) % WordSpace
<1>1. /\ Contained(p, q) /\ Good(q)
      /\ q = [p EXCEPT !.regs = [@ EXCEPT ![<<userMode, 15>>] = x]]
  BY FetchedIsContained DEF Contained
<1> HIDE DEF x
<1>2. /\ q.cpsr = p.cpsr /\ q.spsr = p.spsr
      /\ q.regs = [p.regs EXCEPT ![<<userMode, 15>>] = x]
  BY <1>1 DEF Good, Processors
<1>3. PC(q) = x /\ PC(q) \in Word
  <2>1. RegisterSlot(q.cpsr.mode, 15) = <<userMode, 15>>
        /\ <<userMode, 15>> \in Slots
    BY DEF RegisterSlot, Slots
  <2>2. PC(q) = q.regs[<<userMode, 15>>]
    BY <2>1 DEF PC, GetRegister
  <2> QED BY <1>1, <1>2, <2>1, <2>2 DEF Good, Processors
<1>4. 8 \in Word /\ supervisorMode \in ValidModes /\ supervisorMode \in SavedModes
  BY WordSpaceAssumption DEF Word, ValidModes, SavedModes
<1>5. /\ Good(r)
      /\ r.cpsr = Switched(q.cpsr, supervisorMode)
      /\ r.spsr = Saving(q, supervisorMode, q.cpsr)
      /\ r.regs = Linked(q, supervisorMode, PC(q), 8)
  <2>1. Good(q) /\ PC(q) \in Word
    BY <1>1, <1>3
  <2> QED BY <1>4, <2>1, EnterExceptionStores
<1>6. Reaches(p, r)
  BY <1>1, <1>3, <1>4, EnterExceptionReaches, ReachesAfterContained
<1>7. r.regs = Linked(p, supervisorMode, x, 8)
  BY <1>2, <1>3, <1>5 DEF Linked, Good, Processors
<1> QED BY <1>2, <1>4, <1>5, <1>6, <1>7 DEF Saving, x

LEMMA SupervisorCallsAreSteps ==
    ASSUME Good(p), RunSWI \/ RunSWITHUMB
    PROVE  Step
<1> DEFINE q == Fetched(p)
           r == EnterException(q, supervisorMode, PC(q), 8).p
           s == SetTHUMBMode(r, FALSE).p
<1>1. /\ Good(r) /\ Reaches(p, r)
      /\ r.cpsr = Switched(p.cpsr, supervisorMode)
      /\ r.spsr = Saving(p, supervisorMode, p.cpsr)
      /\ r.regs = Linked(p, supervisorMode,
                     (PC(p) + (IF p.cpsr.thumb THEN 2 ELSE 4)) % WordSpace, 8)
  BY SupervisorCall
<1>2. /\ RunSWI => p' = r /\ ok' = TRUE /\ ~p.cpsr.thumb
      /\ RunSWITHUMB => p' = s /\ ok' = TRUE /\ p.cpsr.thumb
  <2>1. EnterException(q, supervisorMode, PC(q), 8).ok = TRUE
    BY DEF EnterException, SetRegister, Done
  <2> QED BY <2>1 DEF RunSWI, RunSWITHUMB, Returns, SoftwareInterrupt, InARM,
                      SoftwareInterruptTHUMB, SetTHUMBMode, Done, InTHUMB
<1> HIDE DEF q, r
<1>3. p.cpsr.thumb \in BOOLEAN /\ r.cpsr.thumb = p.cpsr.thumb
      /\ r.cpsr.mode = supervisorMode
  BY <1>1, SwitchedMode DEF Switched, Good, Processors, Status
<1>4. /\ Contained(r, s)
      /\ s.spsr = r.spsr /\ s.regs = r.regs
      /\ s.cpsr.mode = supervisorMode /\ ~s.cpsr.thumb
  <2>1. Contained(r, s)
    BY <1>1, SetTHUMBModeIsContained
  <2>2. s = [r EXCEPT !.cpsr.thumb = FALSE]
    BY DEF SetTHUMBMode, Done
  <2> QED BY <1>1, <1>3, <2>1, <2>2 DEF Good, Processors, Status
<1>5. Reaches(p, s)
  BY <1>1, <1>3, <1>4 DEF Reaches, Contained
<1>6. supervisorMode \in SavedModes
  BY DEF SavedModes
<1> QED BY <1>1, <1>2, <1>3, <1>4, <1>5, <1>6
        DEF Step, CalledSupervisor, EntersFromUser, InTHUMB, Saving, Linked

\* An interrupt that is not masked enters its mode from any other.
LEMMA InterruptIsStep ==
    ASSUME Good(p), NEW m \in SavedModes, NEW v \in Word,
           p' = EnterException(p, m, ReturnAddress(p), v).p, ok' = TRUE
    PROVE  /\ Reaches(p, p')
           /\ EntersFromUser(m, PC(p) + 4, v)
<1>1. PC(p) \in Word
  BY FetchedIsContained
<1>2. ReturnAddress(p) \in Word /\ m \in ValidModes
  BY <1>1, WordSpaceAssumption DEF ReturnAddress, Word, ValidModes
<1>3. /\ Good(p')
      /\ p'.cpsr = Switched(p.cpsr, m)
      /\ p'.spsr = Saving(p, m, p.cpsr)
      /\ p'.regs = Linked(p, m, ReturnAddress(p), v)
  BY <1>2, EnterExceptionStores
<1>4. Reaches(p, p')
  BY <1>2, EnterExceptionReaches
<1>5. p'.cpsr.mode = m
  BY <1>3, SwitchedMode
<1> QED BY <1>3, <1>4, <1>5 DEF EntersFromUser, Saving, Linked, ReturnAddress

LEMMA InterruptsAreSteps ==
    ASSUME Good(p), HostIRQ \/ HostFIQ
    PROVE  Step
<1>1. Contained(p, p)
  BY ContainedIsReflexive
<1>2. 24 \in Word /\ 28 \in Word /\ {irqMode, fiqMode} \subseteq SavedModes
  BY WordSpaceAssumption DEF Word, SavedModes
<1>3. ASSUME NEW m, NEW v
      PROVE  EnterException(p, m, ReturnAddress(p), v).ok = TRUE
  BY DEF EnterException, SetRegister, Done
<1>4. CASE p' = p /\ ok' = TRUE
  BY <1>1, <1>4 DEF Step, Contained, Reaches
<1>5. CASE /\ p' = EnterException(p, irqMode, ReturnAddress(p), 24).p
           /\ ok' = TRUE
  BY <1>2, <1>5, InterruptIsStep DEF Step, Interrupted
<1>6. CASE /\ p' = EnterException(p, fiqMode, ReturnAddress(p), 28).p
           /\ ok' = TRUE
  BY <1>2, <1>6, InterruptIsStep DEF Step, Interrupted
<1>7. HostIRQ => (p' = p \/ p' = EnterException(p, irqMode, ReturnAddress(p), 24).p)
                 /\ ok' = TRUE
  BY <1>3 DEF HostIRQ, Returns, SendIRQ, Done
<1>8. HostFIQ => (p' = p \/ p' = EnterException(p, fiqMode, ReturnAddress(p), 28).p)
                 /\ ok' = TRUE
  BY <1>3 DEF HostFIQ, Returns, SendFIQ, Done
<1> QED BY <1>4, <1>5, <1>6, <1>7, <1>8

\* Every step, from a good processor, keeps the promise.
LEMMA NextIsStep ==
    ASSUME Good(p), Next
    PROVE  Step
<1> DEFINE q == Fetched(p)
<1>1. Good(q) /\ Contained(p, q)
  BY FetchedIsContained DEF Contained
<1> HIDE DEF q
<1>2. ASSUME NEW result, Outcome(q, result), Returns(result)
      PROVE  Step
  BY <1>2, OutcomeIsStep DEF q
<1> USE GuestAssumption
<1>3. CASE RunDataProcessing
  <2>1. PICK rd \in GuestRegisters, x \in GuestWords, f \in GuestFlags,
             writes \in BOOLEAN, sBit \in BOOLEAN :
           Returns(DataProcessing(q, [rd |-> rd, result |-> x, flags |-> f,
                                      writes |-> writes, s |-> sBit]))
    BY <1>3 DEF RunDataProcessing, q
  <2> DEFINE d == [rd |-> rd, result |-> x, flags |-> f, writes |-> writes,
                   s |-> sBit]
  <2>2. d.rd \in 0 .. 15 /\ d.result \in Word /\ d.flags \in Status
    OBVIOUS
  <2> HIDE DEF d
  <2>3. Outcome(q, DataProcessing(q, d))
    BY <1>1, <2>2, DataProcessingOutcome
  <2> QED BY <1>2, <2>1, <2>3 DEF d
<1>4. CASE RunMRS
  <2>1. PICK rd \in GuestRegisters, useCPSR \in BOOLEAN, x \in GuestWords :
           Returns(ReadPSR(q, rd, useCPSR, x))
    BY <1>4 DEF RunMRS, q
  <2>2. Outcome(q, ReadPSR(q, rd, useCPSR, x))
    BY <1>1, ReadPSROutcome
  <2> QED BY <1>2, <2>1, <2>2
<1>5. CASE RunMSR
  <2>1. PICK useCPSR \in BOOLEAN, flagsOnly \in BOOLEAN, s \in GuestStatus,
             rm \in GuestRegisters \union {NoRegister} :
           Returns(WritePSR(q, useCPSR, flagsOnly, rm, s))
    BY <1>5 DEF RunMSR, q
  <2>2. Outcome(q, WritePSR(q, useCPSR, flagsOnly, rm, s))
    BY <1>1, WritePSROutcome
  <2> QED BY <1>2, <2>1, <2>2
<1>6. CASE RunLDM
  <2>1. PICK list \in GuestLists : \E loaded \in Prefixes(list),
             forceUser \in BOOLEAN, writeBack \in BOOLEAN,
             rn \in GuestRegisters, x \in GuestWords, end \in GuestWords :
           Returns(BlockDataTransfer(q,
             [rn |-> rn, list |-> list, loaded |-> loaded,
              word |-> [n \in list |-> x], forceUser |-> forceUser,
              writeBack |-> writeBack, end |-> end]))
    BY <1>6 DEF RunLDM, q
  <2>2. PICK loaded \in Prefixes(list),
             forceUser \in BOOLEAN, writeBack \in BOOLEAN,
             rn \in GuestRegisters, x \in GuestWords, end \in GuestWords :
           Returns(BlockDataTransfer(q,
             [rn |-> rn, list |-> list, loaded |-> loaded,
              word |-> [n \in list |-> x], forceUser |-> forceUser,
              writeBack |-> writeBack, end |-> end]))
    BY <2>1
  <2> DEFINE b == [rn |-> rn, list |-> list, loaded |-> loaded,
                   word |-> [n \in list |-> x], forceUser |-> forceUser,
                   writeBack |-> writeBack, end |-> end]
  <2>3. loaded \subseteq list /\ list \subseteq 0 .. 15
    BY DEF Prefixes
  <2>4. /\ b.loaded \subseteq 0 .. 15
        /\ \A n \in b.loaded : b.word[n] \in Word
        /\ b.rn \in 0 .. 15 /\ b.end \in Word
    BY <2>3
  <2> HIDE DEF b
  <2>5. Outcome(q, BlockDataTransfer(q, b))
    BY <1>1, <2>4, BlockDataTransferOutcome
  <2> QED BY <1>2, <2>2, <2>5 DEF b
<1>7. CASE RunBranch
  <2>1. PICK link \in BOOLEAN, x \in GuestWords : Returns(Branch(q, link, x))
    BY <1>7 DEF RunBranch, q
  <2>2. Outcome(q, Branch(q, link, x))
    BY <1>1, BranchOutcome
  <2> QED BY <1>2, <2>1, <2>2
<1>8. CASE RunBX
  BY <1>1, <1>2, <1>8, BranchExchangeOutcome DEF RunBX, q
<1>9. CASE RunBXTHUMB
  BY <1>1, <1>2, <1>9, BranchExchangeOutcome DEF RunBXTHUMB, q
<1>10. CASE RunSWI \/ RunSWITHUMB
  BY <1>10, SupervisorCallsAreSteps
<1>11. CASE RunDataTHUMB
  <2>1. PICK rd \in GuestRegisters, x \in GuestWords, f \in GuestFlags :
           Returns(SetRegister([q EXCEPT !.cpsr = WithFlags(@, f)], rd, x))
    BY <1>11 DEF RunDataTHUMB, q
  <2> DEFINE e == [q EXCEPT !.cpsr = WithFlags(@, f)]
  <2>2. Contained(q, e)
    BY <1>1, WithFlagsIsContained
  <2> HIDE DEF e
  <2>3. rd \in Nat /\ x \in Word
    OBVIOUS
  <2>4. ASSUME NEW n \in Nat, n = rd
        PROVE  Outcome(q, SetRegister(e, n, x))
    BY <1>1, <2>2, <2>3, SetRegisterOutcome
  <2> QED BY <1>2, <2>1, <2>3, <2>4 DEF e
<1>12. CASE RunSkipped
  BY <1>1, <1>2, <1>12, ContainedIsReflexive, ContainedResults
  DEF RunSkipped, q
<1>13. CASE RunUndecodable
  <2>1. PICK r \in {p, q} : Returns(Fail(r))
    BY <1>13 DEF RunUndecodable, q
  <2>2. Outcome(p, Fail(r))
    BY <1>1, ContainedIsReflexive, ContainedResults
  <2> QED BY <2>1, <2>2 DEF Outcome, Step, Returns
<1>14. CASE HostIRQ \/ HostFIQ
  BY <1>14, InterruptsAreSteps
<1>15. CASE RunRefusedShift
  BY <1>1, <1>2, <1>15, ContainedIsReflexive, ContainedResults
  DEF RunRefusedShift, q
<1> QED BY <1>3, <1>4, <1>5, <1>6, <1>7, <1>8, <1>9, <1>10, <1>11, <1>12,
           <1>13, <1>14, <1>15 DEF Next, GuestStep

-----------------------------------------------------------------------------
\* The invariant and the theorems

Inv == Good(p) /\ ok \in BOOLEAN /\ steps \in 0 .. MaxSteps

\* The host boots the guest in a defined mode.
LEMMA InitGood == Init => Inv
<1> SUFFICES ASSUME Init PROVE Inv
  OBVIOUS
<1>1. PICK m \in BootModes, thumb \in BOOLEAN :
          p = SetTHUMBMode(SetMode(NewARMProcessor, m).p, thumb).p
  BY DEF Init
<1>2. Good(SetMode(NewARMProcessor, m).p)
  BY NewProcessorGood, SetModeKeeps DEF Keeps
<1>3. Good(p)
  BY <1>1, <1>2, SetTHUMBModeKeeps DEF Keeps
<1> QED BY <1>3, GuestAssumption DEF Init, Inv

LEMMA Invariance == Spec => []Inv
<1>1. Inv /\ [Next]_vars => Inv'
  <2> SUFFICES ASSUME Inv, [Next]_vars PROVE Inv'
    OBVIOUS
  <2>1. CASE Next
    <3>1. Good(p') /\ ok' \in BOOLEAN
      BY <2>1, NextIsStep DEF Inv, Step, Reaches
    <3>2. steps < MaxSteps /\ steps' = steps + 1
      BY <2>1 DEF Next, GuestStep, HostIRQ, HostFIQ, RunDataProcessing, RunMRS,
          RunMSR, RunLDM, RunBranch, RunBX, RunSWI, RunBXTHUMB, RunSWITHUMB,
          RunDataTHUMB, RunSkipped, RunUndecodable, RunRefusedShift, Returns
    <3> QED BY <3>1, <3>2, GuestAssumption DEF Inv
  <2>2. CASE UNCHANGED vars
    BY <2>2 DEF Inv, vars
  <2> QED BY <2>1, <2>2
<1> QED BY InitGood, <1>1, PTL DEF Spec

\* The processor keeps its Go types under any guest.
THEOREM GuestTypeCorrect == Spec => []TypeOK
<1>1. Inv => TypeOK
  BY DEF Inv, TypeOK, Good
<1> QED BY <1>1, Invariance, PTL

\* No guest gets the processor into a mode it has no registers for, whatever
\* it puts into an SPSR.
THEOREM GuestModesStayValid == Spec => []ModeAlwaysValid
<1>1. Inv => ModeAlwaysValid
  BY DEF Inv, ModeAlwaysValid, Good
<1> QED BY <1>1, Invariance, PTL

\* A user-mode program gets out of user mode by swi and interrupts only, and
\* cannot reach the interrupt masks, an SPSR or a banked register.
THEOREM UserModeIsIsolated == Spec => UserIsolation
<1>1. Inv /\ [Next]_vars =>
        [p.cpsr.mode = userMode
            => StaysInUserMode \/ CalledSupervisor \/ Interrupted]_vars
  <2> SUFFICES ASSUME Inv, Next, p.cpsr.mode = userMode
               PROVE  StaysInUserMode \/ CalledSupervisor \/ Interrupted
    BY DEF vars
  <2>1. Contained(p, p') => StaysInUserMode
    <3>1. \A s \in Slots \ UserSlots : s[1] # userMode
      BY DEF Slots, UserSlots, SavedModes, userMode, fiqMode, irqMode,
          supervisorMode, abortMode, undefinedMode
    <3> QED BY <3>1 DEF Contained, StaysInUserMode
  <2> QED BY <2>1, NextIsStep DEF Inv, Step
<1> QED BY <1>1, Invariance, PTL DEF Spec, UserIsolation

\* No step writes a register of a mode it neither starts nor ends in.
THEOREM BanksAreIsolated == Spec => BankIsolation
<1>1. Inv /\ [Next]_vars =>
        [\A s \in Slots : p'.regs[s] # p.regs[s]
            => s[1] \in {userMode, p.cpsr.mode, p'.cpsr.mode}]_vars
  BY NextIsStep DEF Inv, Step, Reaches
<1> QED BY <1>1, Invariance, PTL DEF Spec, BankIsolation

\* An SPSR is written only by a step that ends in its mode.
THEOREM GuestSavedStatusIsStable == Spec => SavedStatusStability
<1>1. Inv /\ [Next]_vars =>
        [\A m \in SavedModes : p'.spsr[m] # p.spsr[m] => p'.cpsr.mode = m]_vars
  BY NextIsStep DEF Inv, Step, Reaches
<1> QED BY <1>1, Invariance, PTL DEF Spec, SavedStatusStability

\* An instruction that fails has not moved the control of the processor.
THEOREM FailuresAreHarmless == Spec => FailuresKeepControl
<1>1. Inv /\ [Next]_vars =>
        [~ok' => Control(p'.cpsr) = Control(p.cpsr) /\ p'.spsr = p.spsr]_vars
  BY NextIsStep DEF Inv, Step, Contained
<1> QED BY <1>1, Invariance, PTL DEF Spec, FailuresKeepControl
=============================================================================
