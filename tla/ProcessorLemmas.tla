-------------------------- MODULE ProcessorLemmas ---------------------------
(***************************************************************************)
(* What the methods of the processor and the control instructions do to    *)
(* it, one lemma for each, for any word size: the facts that the proofs    *)
(* about the interface, about arbitrary guests and about nested handlers   *)
(* have in common.                                                         *)
(***************************************************************************)
EXTENDS ControlInstructions, TLAPS

\* A processor in a state the methods keep: typed, and in a defined mode.
Good(q) == q \in Processors /\ q.cpsr.mode \in ValidModes

\* What every method promises about the processor it is given.
Keeps(q, result) ==
    /\ result.ok \in BOOLEAN
    /\ Good(result.p)
    /\ ~result.ok => result.p = q

-----------------------------------------------------------------------------
\* The methods one by one

\* A new processor is in user mode, with every register and SPSR zero.
LEMMA NewProcessorGood == Good(NewARMProcessor)
<1>1. ZeroStatus \in Status
  BY DEF ZeroStatus, Status
<1>2. [ZeroStatus EXCEPT !.mode = userMode] \in Status
  BY <1>1 DEF Status, userMode
<1>3. 0 \in Word
  BY WordSpaceAssumption DEF Word
<1>4. NewARMProcessor \in Processors
  BY <1>1, <1>2, <1>3 DEF NewARMProcessor, Processors
<1> QED BY <1>4 DEF Good, NewARMProcessor, ValidModes, ZeroStatus

\* In a defined mode every register number up to 15 has a place in the arrays.
LEMMA SlotExists ==
    ASSUME NEW mode \in ValidModes, NEW n \in 0 .. 15
    PROVE  RegisterSlot(mode, n) \in Slots
BY DEF ValidModes, SavedModes, RegisterSlot, Slots, userMode, fiqMode, irqMode,
       supervisorMode, abortMode, undefinedMode, systemMode

\* SetRegister writes one slot of the current mode and nothing else.
LEMMA SetRegisterKeeps ==
    ASSUME NEW q, Good(q), NEW n \in Nat, NEW x \in Word
    PROVE  /\ Keeps(q, SetRegister(q, n, x))
           /\ SetRegister(q, n, x).p.cpsr = q.cpsr
           /\ SetRegister(q, n, x).p.spsr = q.spsr
BY SlotExists DEF Good, Keeps, SetRegister, Processors, Done, Fail

\* SetUserRegister always has a slot to write.
LEMMA SetUserRegisterKeeps ==
    ASSUME NEW q, Good(q), NEW n \in Nat, NEW x \in Word
    PROVE  Keeps(q, SetUserRegister(q, n, x))
BY DEF Good, Keeps, SetUserRegister, Processors, Done, Fail, Slots

\* Replacing the CPSR by a status word of a defined mode is harmless.
LEMMA ReplaceCPSR ==
    ASSUME NEW q, Good(q), NEW s \in Status, s.mode \in ValidModes
    PROVE  /\ Good([q EXCEPT !.cpsr = s])
           /\ [q EXCEPT !.cpsr = s].cpsr = s
           /\ [q EXCEPT !.cpsr = s].regs = q.regs
BY DEF Good, Processors

\* The flag setters and SetTHUMBMode leave the mode alone.
LEMMA SetFlagKeeps ==
    ASSUME NEW q, Good(q), NEW f \in Flags, NEW b \in BOOLEAN
    PROVE  Keeps(q, SetFlag(q, f, b))
<1> DEFINE s == [q.cpsr EXCEPT ![f] = b]
<1>1. s \in Status /\ s.mode = q.cpsr.mode
  BY DEF Good, Processors, Status, Flags
<1>2. SetFlag(q, f, b) = [p |-> [q EXCEPT !.cpsr = s], ok |-> TRUE]
  BY DEF SetFlag, Done, Good, Processors
<1>3. Good([q EXCEPT !.cpsr = s])
  BY <1>1, ReplaceCPSR DEF Good
<1> HIDE DEF s
<1> QED BY <1>2, <1>3 DEF Keeps

LEMMA SetTHUMBModeKeeps ==
    ASSUME NEW q, Good(q), NEW b \in BOOLEAN
    PROVE  Keeps(q, SetTHUMBMode(q, b))
<1> DEFINE s == [q.cpsr EXCEPT !.thumb = b]
<1>1. s \in Status /\ s.mode = q.cpsr.mode
  BY DEF Good, Processors, Status
<1>2. SetTHUMBMode(q, b) = [p |-> [q EXCEPT !.cpsr = s], ok |-> TRUE]
  BY DEF SetTHUMBMode, Done, Good, Processors
<1>3. Good([q EXCEPT !.cpsr = s])
  BY <1>1, ReplaceCPSR DEF Good
<1> HIDE DEF s
<1> QED BY <1>2, <1>3 DEF Keeps

\* SetSPSR accepts any status word, also one whose mode is undefined.
LEMMA SetSPSRKeeps ==
    ASSUME NEW q, Good(q), NEW s \in Status
    PROVE  /\ Keeps(q, SetSPSR(q, s))
           /\ SetSPSR(q, s).p.cpsr = q.cpsr
           /\ SetSPSR(q, s).p.regs = q.regs
BY DEF Good, Keeps, SetSPSR, Processors, Done, Fail

\* SetMode either refuses the mode or ends in it, with the registers as they
\* were and the other CPSR bits kept.
LEMMA SetModeKeeps ==
    ASSUME NEW q, Good(q), NEW m
    PROVE  /\ Keeps(q, SetMode(q, m))
           /\ SetMode(q, m).p.regs = q.regs
           /\ SetMode(q, m).ok <=> m \in ValidModes
           /\ m \in ValidModes =>
                SetMode(q, m).p.cpsr = [q.cpsr EXCEPT !.mode = m]
<1> DEFINE s == [q.cpsr EXCEPT !.mode = m]
           r == [q EXCEPT !.cpsr = s]
<1>1. CASE m \notin ValidModes
  BY <1>1 DEF Good, Keeps, SetMode, Fail
<1>2. CASE m \in ValidModes
  <2>1. s \in Status /\ s.mode = m
    BY <1>2 DEF Good, Processors, Status, ValidModes, SavedModes, userMode,
        fiqMode, irqMode, supervisorMode, abortMode, undefinedMode, systemMode
  <2>2. Good(r) /\ r.cpsr = s /\ r.regs = q.regs
    BY <1>2, <2>1, ReplaceCPSR
  <2>3. q.cpsr \in Status
    BY DEF Good, Processors
  <2>4. SetMode(q, m) = IF m \in SavedModes THEN SetSPSR(r, q.cpsr) ELSE Done(r)
    BY <1>2 DEF SetMode, Good, Processors
  <2>5. m \in SavedModes => SetSPSR(r, q.cpsr).ok
    BY <2>1, <2>2 DEF SetSPSR, Done
  <2>6. m \in SavedModes => Keeps(q, SetSPSR(r, q.cpsr))
                            /\ SetSPSR(r, q.cpsr).p.cpsr = s
                            /\ SetSPSR(r, q.cpsr).p.regs = q.regs
    <3> HIDE DEF r, s
    <3> QED BY <2>2, <2>3, <2>5, SetSPSRKeeps DEF Keeps
  <2>7. Keeps(q, Done(r)) /\ Done(r).p.cpsr = s /\ Done(r).p.regs = q.regs
        /\ Done(r).ok
    <3> HIDE DEF r, s
    <3> QED BY <2>2 DEF Keeps, Done
  <2> HIDE DEF r
  <2>8. CASE m \in SavedModes
    BY <1>2, <2>4, <2>5, <2>6, <2>8
  <2>9. CASE m \notin SavedModes
    BY <1>2, <2>4, <2>7, <2>9
  <2> QED BY <2>8, <2>9
<1> QED BY <1>1, <1>2

\* SetCPSR ends in a defined mode or has done nothing.
LEMMA SetCPSRKeeps ==
    ASSUME NEW q, Good(q), NEW s \in Status
    PROVE  /\ Keeps(q, SetCPSR(q, s))
           /\ SetCPSR(q, s).p.regs = q.regs
<1> DEFINE moved  == IF s.mode # q.cpsr.mode THEN SetMode(q, s.mode) ELSE Done(q)
           stored == IF q.cpsr.mode = userMode THEN WithFlags(q.cpsr, s) ELSE s
<1>1. Keeps(q, moved) /\ moved.p.regs = q.regs
  BY SetModeKeeps DEF Keeps, Done
<1>2. moved.ok => s.mode \in ValidModes
  BY SetModeKeeps DEF Done, Good
<1>3. moved.ok => stored \in Status /\ stored.mode \in ValidModes
  BY <1>2 DEF Good, Processors, WithFlags, Status
<1>4. SetCPSR(q, s) = IF ~moved.ok THEN moved
                      ELSE Done([moved.p EXCEPT !.cpsr = stored])
  BY DEF SetCPSR
<1> HIDE DEF moved, stored
<1>5. CASE ~moved.ok
  BY <1>1, <1>4, <1>5
<1>6. CASE moved.ok
  <2> DEFINE r == [moved.p EXCEPT !.cpsr = stored]
  <2>1. Good(r) /\ r.regs = q.regs
    BY <1>1, <1>3, <1>6, ReplaceCPSR DEF Keeps
  <2> HIDE DEF r
  <2>2. SetCPSR(q, s) = Done(r)
    BY <1>4, <1>6 DEF r
  <2> QED BY <2>1, <2>2 DEF Keeps, Done
<1> QED BY <1>5, <1>6

\* Taking an exception ends in its mode.
LEMMA EnterExceptionKeeps ==
    ASSUME NEW q, Good(q), NEW m \in ValidModes, NEW x \in Word, NEW v \in Word
    PROVE  Keeps(q, EnterException(q, m, x, v))
<1> DEFINE a == SetMode(q, m).p
           b == SetRegister(a, 14, x).p
<1>1. Good(a)
  BY SetModeKeeps DEF Keeps
<1>2. Good(b)
  BY <1>1, SetRegisterKeeps DEF Keeps
<1>3. SetRegister(b, 15, v).ok
  BY DEF SetRegister, Done
<1> QED BY <1>2, <1>3, SetRegisterKeeps DEF EnterException, Keeps

\* SendIRQ and SendFIQ store words only: pc + 4 wraps.
LEMMA SendKeeps ==
    ASSUME NEW q, Good(q)
    PROVE  Keeps(q, SendIRQ(q)) /\ Keeps(q, SendFIQ(q))
<1>1. PC(q) \in Word
  BY SlotExists, WordSpaceAssumption
  DEF PC, GetRegister, Good, Processors, Word
<1>2. ReturnAddress(q) \in Word /\ 24 \in Word /\ 28 \in Word
  BY <1>1, WordSpaceAssumption DEF ReturnAddress, Word
<1>3. {irqMode, fiqMode} \subseteq ValidModes
  BY DEF ValidModes, SavedModes
<1>4. /\ Keeps(q, EnterException(q, irqMode, ReturnAddress(q), 24))
      /\ Keeps(q, EnterException(q, fiqMode, ReturnAddress(q), 28))
  BY <1>2, <1>3, EnterExceptionKeeps
<1>5. Keeps(q, Done(q))
  BY DEF Keeps, Done
<1> QED BY <1>4, <1>5 DEF SendIRQ, SendFIQ

-----------------------------------------------------------------------------
\* Mode changes and exceptions, exactly

\* The spsr array after a switch to mode m with status saved.
Saving(q, m, status) ==
    IF m \in SavedModes THEN [q.spsr EXCEPT ![m] = status] ELSE q.spsr

\* SetMode saves the whole old CPSR for the mode it enters, and only there.
LEMMA SetModeSaves ==
    ASSUME NEW q, Good(q), NEW m \in ValidModes
    PROVE  SetMode(q, m).p.spsr = Saving(q, m, q.cpsr)
<1> DEFINE r == [q EXCEPT !.cpsr = [q.cpsr EXCEPT !.mode = m]]
<1>1. SetMode(q, m) = IF m \in SavedModes THEN SetSPSR(r, q.cpsr) ELSE Done(r)
  BY DEF SetMode, Good, Processors
<1>2. r.cpsr.mode = m /\ r.spsr = q.spsr
  BY DEF Good, Processors, Status
<1>3. r \in [cpsr : {r.cpsr}, spsr : {q.spsr}, regs : {q.regs}]
  BY DEF Good, Processors
<1> HIDE DEF r
<1>4. m \in SavedModes =>
        SetSPSR(r, q.cpsr).p.spsr = [q.spsr EXCEPT ![m] = q.cpsr]
  BY <1>2, <1>3 DEF SetSPSR, Done
<1> QED BY <1>1, <1>2, <1>4 DEF Saving, Done

\* SetCPSR refuses an undefined mode; else it stores the word, or in user mode
\* its flags, after a SetMode if the mode is another one.
LEMMA SetCPSRStores ==
    ASSUME NEW q, Good(q), NEW s \in Status
    PROVE  /\ SetCPSR(q, s).ok <=> s.mode \in ValidModes
           /\ s.mode \in ValidModes =>
                /\ SetCPSR(q, s).p.cpsr = IF q.cpsr.mode = userMode
                                            THEN WithFlags(q.cpsr, s) ELSE s
                /\ SetCPSR(q, s).p.spsr = IF s.mode = q.cpsr.mode THEN q.spsr
                                          ELSE Saving(q, s.mode, q.cpsr)
<1> DEFINE moved  == IF s.mode # q.cpsr.mode THEN SetMode(q, s.mode) ELSE Done(q)
           stored == IF q.cpsr.mode = userMode THEN WithFlags(q.cpsr, s) ELSE s
<1>1. SetCPSR(q, s) = IF ~moved.ok THEN moved
                      ELSE Done([moved.p EXCEPT !.cpsr = stored])
  BY DEF SetCPSR
<1>2. moved.ok <=> s.mode \in ValidModes
  BY SetModeKeeps DEF Done, Good
<1>3. moved.p \in Processors
  BY SetModeKeeps DEF Keeps, Good, Done
<1>4. s.mode \in ValidModes =>
        moved.p.spsr = IF s.mode = q.cpsr.mode THEN q.spsr
                       ELSE Saving(q, s.mode, q.cpsr)
  BY SetModeSaves DEF Done
<1> HIDE DEF moved, stored
<1>5. moved.ok => /\ SetCPSR(q, s).ok
                  /\ SetCPSR(q, s).p.cpsr = stored
                  /\ SetCPSR(q, s).p.spsr = moved.p.spsr
  BY <1>1, <1>3 DEF Done, Processors
<1>6. ~moved.ok => ~SetCPSR(q, s).ok
  BY <1>1
<1> QED BY <1>2, <1>4, <1>5, <1>6 DEF stored

\* The CPSR and the registers after an exception to mode m.
Switched(status, m) == [status EXCEPT !.mode = m]

Linked(q, m, x, v) == [q.regs EXCEPT ![RegisterSlot(m, 14)] = x,
                                     ![<<userMode, 15>>] = v]

LEMMA SwitchedMode ==
    ASSUME NEW q, Good(q), NEW m
    PROVE  Switched(q.cpsr, m).mode = m
BY DEF Switched, Good, Processors, Status

\* An exception leaves the old CPSR in the SPSR of its mode, the return
\* address in its lr and the vector in the pc.
LEMMA EnterExceptionStores ==
    ASSUME NEW q, Good(q), NEW m \in ValidModes, NEW x \in Word, NEW v \in Word,
           NEW r, r = EnterException(q, m, x, v).p
    PROVE  /\ EnterException(q, m, x, v).ok
           /\ Good(r)
           /\ r.cpsr = Switched(q.cpsr, m)
           /\ r.spsr = Saving(q, m, q.cpsr)
           /\ r.regs = Linked(q, m, x, v)
<1> DEFINE a == SetMode(q, m).p
           b == SetRegister(a, 14, x).p
           c == SetRegister(b, 15, v)
<1>1. Good(a) /\ a.regs = q.regs /\ a.cpsr = [q.cpsr EXCEPT !.mode = m]
      /\ a.spsr = Saving(q, m, q.cpsr)
  BY SetModeKeeps, SetModeSaves DEF Keeps
<1>2. a.cpsr.mode = m
  BY <1>1 DEF Good, Processors, Status
<1>3. /\ Good(b) /\ b.cpsr = a.cpsr /\ b.spsr = a.spsr
      /\ b.regs = [q.regs EXCEPT ![RegisterSlot(m, 14)] = x]
  <2> HIDE DEF a
  <2>1. Good(b) /\ b.cpsr = a.cpsr /\ b.spsr = a.spsr
    BY <1>1, SetRegisterKeeps DEF Keeps
  <2> QED BY <1>1, <1>2, <2>1 DEF SetRegister, Done, Good, Processors
<1>4. /\ c.ok /\ Good(c.p) /\ c.p.cpsr = b.cpsr /\ c.p.spsr = b.spsr
      /\ c.p.regs = [b.regs EXCEPT ![<<userMode, 15>>] = v]
  <2> HIDE DEF b
  <2>1. Good(c.p) /\ c.p.cpsr = b.cpsr /\ c.p.spsr = b.spsr
    BY <1>3, SetRegisterKeeps DEF Keeps
  <2>2. RegisterSlot(b.cpsr.mode, 15) = <<userMode, 15>>
    BY DEF RegisterSlot
  <2> QED BY <1>3, <2>1, <2>2 DEF SetRegister, Done, Good, Processors
<1>5. EnterException(q, m, x, v) = c
  BY DEF EnterException
<1> HIDE DEF a, b, c
<1> QED BY <1>1, <1>3, <1>4, <1>5 DEF Switched, Linked

-----------------------------------------------------------------------------
\* Reading the link register, the pc and the SPSR

LEMMA LinkIsNotPC ==
    ASSUME NEW m \in ValidModes
    PROVE  RegisterSlot(m, 14) # <<userMode, 15>> /\ RegisterSlot(m, 14) \in Slots
<1>1. RegisterSlot(m, 14) \in Slots
  BY SlotExists
<1>2. RegisterSlot(m, 14)[2] # 15
  BY DEF RegisterSlot
<1> QED BY <1>1, <1>2

LEMMA Reads ==
    ASSUME NEW q, Good(q)
    PROVE  /\ GetRegister(q, 14).value = q.regs[RegisterSlot(q.cpsr.mode, 14)]
           /\ PC(q) = q.regs[<<userMode, 15>>]
           /\ GetRegister(q, 14).value \in Word
           /\ PC(q) \in Word
           /\ GetSPSR(q).value \in Status
<1>1. q.cpsr.mode \in ValidModes /\ q.regs \in [Slots -> Word]
  BY DEF Good, Processors
<1>2. RegisterSlot(q.cpsr.mode, 14) \in Slots
  BY <1>1, LinkIsNotPC
<1>3. RegisterSlot(q.cpsr.mode, 15) = <<userMode, 15>> /\ <<userMode, 15>> \in Slots
  BY DEF RegisterSlot, Slots
<1>4. GetRegister(q, 14).value = q.regs[RegisterSlot(q.cpsr.mode, 14)]
  BY <1>2 DEF GetRegister
<1>5. PC(q) = q.regs[<<userMode, 15>>]
  BY <1>3 DEF PC, GetRegister
<1>6. GetSPSR(q).value \in Status
  BY DEF Good, Processors, GetSPSR, ZeroStatus, Status
<1> QED BY <1>1, <1>2, <1>3, <1>4, <1>5, <1>6

\* What a read of lr, of the pc and of the SPSR depends on.
LEMMA SameReads ==
    ASSUME NEW q, Good(q), NEW r, Good(r),
           r.cpsr.mode = q.cpsr.mode, r.regs = q.regs, r.spsr = q.spsr
    PROVE  /\ GetRegister(r, 14).value = GetRegister(q, 14).value
           /\ PC(r) = PC(q)
           /\ GetSPSR(r) = GetSPSR(q)
<1>1. GetSPSR(r) = GetSPSR(q)
  BY DEF GetSPSR
<1> QED BY <1>1, Reads

LEMMA WritesPC ==
    ASSUME NEW q, Good(q), NEW x \in Word, NEW r, r = SetRegister(q, 15, x).p
    PROVE  /\ Good(r) /\ r.cpsr = q.cpsr /\ r.spsr = q.spsr
           /\ PC(r) = x
           /\ GetRegister(r, 14).value = GetRegister(q, 14).value
<1>1. Good(r) /\ r.cpsr = q.cpsr /\ r.spsr = q.spsr
  BY SetRegisterKeeps DEF Keeps
<1>2. RegisterSlot(q.cpsr.mode, 15) = <<userMode, 15>> /\ <<userMode, 15>> \in Slots
  BY DEF RegisterSlot, Slots
<1>3. r.regs = [q.regs EXCEPT ![<<userMode, 15>>] = x]
  BY <1>2 DEF SetRegister, Done, Good, Processors
<1>4. RegisterSlot(q.cpsr.mode, 14) # <<userMode, 15>>
      /\ RegisterSlot(q.cpsr.mode, 14) \in Slots
  BY LinkIsNotPC DEF Good
<1>5. r.regs[<<userMode, 15>>] = x
      /\ r.regs[RegisterSlot(q.cpsr.mode, 14)] = q.regs[RegisterSlot(q.cpsr.mode, 14)]
  BY <1>2, <1>3, <1>4 DEF Good, Processors
<1>6. PC(r) = x
  BY <1>1, <1>5, Reads
<1>7. GetRegister(r, 14).value = GetRegister(q, 14).value
  BY <1>1, <1>5, Reads
<1> QED BY <1>1, <1>6, <1>7

LEMMA WritesLink ==
    ASSUME NEW q, Good(q), NEW x \in Word, NEW r, r = SetRegister(q, 14, x).p
    PROVE  /\ Good(r) /\ r.cpsr = q.cpsr /\ r.spsr = q.spsr
           /\ GetRegister(r, 14).value = x
<1>1. Good(r) /\ r.cpsr = q.cpsr /\ r.spsr = q.spsr
  BY SetRegisterKeeps DEF Keeps
<1>2. r.regs = [q.regs EXCEPT ![RegisterSlot(q.cpsr.mode, 14)] = x]
  BY DEF SetRegister, Done, Good, Processors
<1>3. RegisterSlot(q.cpsr.mode, 14) \in Slots
  BY LinkIsNotPC DEF Good
<1>4. r.regs[RegisterSlot(q.cpsr.mode, 14)] = x
  BY <1>2, <1>3 DEF Good, Processors
<1> QED BY <1>1, <1>4, Reads

LEMMA FetchedReads ==
    ASSUME NEW q, Good(q), NEW r, r = Fetched(q)
    PROVE  /\ Good(r) /\ r.cpsr = q.cpsr /\ r.spsr = q.spsr
           /\ GetRegister(r, 14).value = GetRegister(q, 14).value
<1> DEFINE x == (PC(q) + (IF q.cpsr.thumb THEN 2 ELSE 4)) % WordSpace
<1>1. x \in Word
  <2>1. PC(q) \in Nat
    BY Reads, WordSpaceAssumption DEF Word
  <2> QED BY <2>1, WordSpaceAssumption DEF Word
<1>2. r = SetRegister(q, 15, x).p
  BY DEF Fetched
<1> HIDE DEF x
<1> QED BY <1>1, <1>2, WritesPC

\* A processor that has just taken an exception to m.
Entered(q, m, x, r) ==
    /\ Good(r)
    /\ r.cpsr.mode = m
    /\ GetRegister(r, 14).value = x
    /\ GetSPSR(r).value = q.cpsr

LEMMA ExceptionEnters ==
    ASSUME NEW q, Good(q), NEW m \in SavedModes, NEW x \in Word, NEW v \in Word,
           NEW r, r = EnterException(q, m, x, v).p
    PROVE  Entered(q, m, x, r)
<1>1. m \in ValidModes
  BY DEF ValidModes
<1>2. /\ Good(r) /\ r.cpsr = Switched(q.cpsr, m) /\ r.spsr = Saving(q, m, q.cpsr)
      /\ r.regs = Linked(q, m, x, v)
  BY <1>1, EnterExceptionStores
<1>3. r.cpsr.mode = m
  BY <1>2, SwitchedMode
<1>4. RegisterSlot(m, 14) # <<userMode, 15>> /\ RegisterSlot(m, 14) \in Slots
  BY <1>1, LinkIsNotPC
<1>5. q.regs \in [Slots -> Word] /\ q.spsr \in [SavedModes -> Status]
  BY DEF Good, Processors
<1>6. Linked(q, m, x, v)[RegisterSlot(m, 14)] = x
  BY <1>4, <1>5 DEF Linked
<1>7. Saving(q, m, q.cpsr)[m] = q.cpsr
  BY <1>5 DEF Saving
<1>8. GetRegister(r, 14).value = x
  BY <1>2, <1>3, <1>6, Reads
<1>9. GetSPSR(r).value = q.cpsr
  BY <1>2, <1>3, <1>7 DEF GetSPSR
<1> QED BY <1>2, <1>3, <1>8, <1>9 DEF Entered
=============================================================================
