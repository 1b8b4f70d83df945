-------------------------- MODULE ProcessorProofs ---------------------------
(***************************************************************************)
(* Proofs about the register file and the ARMProcessor interface, for any  *)
(* word size and any arguments of the host.                                *)
(***************************************************************************)
EXTENDS ProcessorAPI, ProcessorLemmas, TLAPS

-----------------------------------------------------------------------------
\* The interface

\* Every call keeps the processor good and tells the truth about failures.
LEMMA CallsKeep ==
    ASSUME Good(p), Next
    PROVE  Keeps(p, [p |-> p', ok |-> ok'])
<1>1. ASSUME NEW r, Keeps(p, r), Returns(r)
      PROVE  Keeps(p, [p |-> p', ok |-> ok'])
  BY <1>1 DEF Returns, Keeps
<1> USE HostAssumption
<1>2. CASE CallSetMode
  BY <1>1, <1>2, SetModeKeeps DEF CallSetMode
<1>3. CASE CallSetCPSR
  BY <1>1, <1>3, SetCPSRKeeps DEF CallSetCPSR
<1>4. CASE CallSetSPSR
  BY <1>1, <1>4, SetSPSRKeeps DEF CallSetSPSR
<1>5. CASE CallSetFlag
  BY <1>1, <1>5, SetFlagKeeps DEF CallSetFlag
<1>6. CASE CallSetTHUMBMode
  BY <1>1, <1>6, SetTHUMBModeKeeps DEF CallSetTHUMBMode
<1>7. CASE CallSetRegister
  BY <1>1, <1>7, SetRegisterKeeps DEF CallSetRegister
<1>8. CASE CallSetUserRegister
  BY <1>1, <1>8, SetUserRegisterKeeps DEF CallSetUserRegister
<1>9. CASE CallSendIRQ
  BY <1>1, <1>9, SendKeeps DEF CallSendIRQ
<1>10. CASE CallSendFIQ
  BY <1>1, <1>10, SendKeeps DEF CallSendFIQ
<1> QED BY <1>2, <1>3, <1>4, <1>5, <1>6, <1>7, <1>8, <1>9, <1>10 DEF Next

Inv == Good(p) /\ ok \in BOOLEAN

LEMMA InitGood == Init => Inv
BY NewProcessorGood DEF Init, Inv

LEMMA Invariance == Spec => []Inv
<1>1. Inv /\ [Next]_vars => Inv'
  BY CallsKeep DEF Inv, Keeps, Good, vars
<1> QED BY InitGood, <1>1, PTL DEF Spec

\* The register file keeps its Go types under every sequence of calls.
THEOREM TypeCorrect == Spec => []TypeOK
<1>1. Inv => TypeOK
  BY DEF Inv, TypeOK, Good
<1> QED BY <1>1, Invariance, PTL

\* No sequence of calls reaches an undefined mode, nor the "unreachable" return.
THEOREM ModesStayValid == Spec => []ModeAlwaysValid
<1>1. Inv => ModeAlwaysValid
  BY SlotExists DEF Inv, ModeAlwaysValid, Good, GetRegister
<1> QED BY <1>1, Invariance, PTL

\* No method changes the processor and returns an error.
THEOREM CallsAreAtomic == Spec => FailedCallsChangeNothing
<1>1. Inv /\ [Next]_vars => [~ok' => p' = p]_vars
  BY CallsKeep DEF Inv, Keeps, vars
<1> QED BY <1>1, Invariance, PTL DEF Spec, FailedCallsChangeNothing

\* Writing back the CPSR one has read is always harmless.
THEOREM RestoringIsHarmless == Spec => []RestoringStatusIsIdentity
<1>1. Inv => RestoringStatusIsIdentity
  <2> SUFFICES ASSUME Inv PROVE SetCPSR(p, p.cpsr) = Done(p)
    BY DEF RestoringStatusIsIdentity
  <2>1. WithFlags(p.cpsr, p.cpsr) = p.cpsr
    BY DEF Inv, Good, Processors, Status, WithFlags
  <2>2. [p EXCEPT !.cpsr = p.cpsr] = p
    BY DEF Inv, Good, Processors
  <2> QED BY <2>1, <2>2 DEF SetCPSR, Done
<1> QED BY <1>1, Invariance, PTL

-----------------------------------------------------------------------------
\* The saved status registers

\* r has the SPSRs of q but for the one of its mode, or both are in user mode.
SavedStable(q, r) ==
    \A m \in SavedModes : r.spsr[m] # q.spsr[m] =>
        r.cpsr.mode = m \/ (q.cpsr.mode = userMode /\ r.cpsr.mode = userMode)

\* SetMode writes the SPSR of the mode it ends in.
LEMMA SavingIsStable ==
    ASSUME NEW q, Good(q), NEW r, NEW m, NEW status,
           r.spsr = Saving(q, m, status), r.cpsr.mode = m
    PROVE  SavedStable(q, r)
<1>1. \A k \in SavedModes \ {m} : r.spsr[k] = q.spsr[k]
  BY DEF Saving, Good, Processors
<1> QED BY <1>1 DEF SavedStable

LEMMA SetModeIsStable ==
    ASSUME NEW q, Good(q), NEW m
    PROVE  SavedStable(q, SetMode(q, m).p)
<1>1. CASE m \notin ValidModes
  BY <1>1, SetModeKeeps DEF Keeps, SavedStable
<1>2. CASE m \in ValidModes
  <2>1. [q.cpsr EXCEPT !.mode = m].mode = m
    BY DEF Good, Processors, Status
  <2>2. SetMode(q, m).p.cpsr.mode = m
    BY <1>2, <2>1, SetModeKeeps
  <2>3. SetMode(q, m).p.spsr = Saving(q, m, q.cpsr)
    BY <1>2, SetModeSaves
  <2> QED BY <2>2, <2>3, SavingIsStable
<1> QED BY <1>1, <1>2

\* SetCPSR in user mode may write any SPSR, since SetMode runs first.
LEMMA SetCPSRIsStable ==
    ASSUME NEW q, Good(q), NEW s \in Status
    PROVE  SavedStable(q, SetCPSR(q, s).p)
<1> DEFINE r == SetCPSR(q, s).p
<1>1. CASE s.mode \notin ValidModes
  <2>1. r = q
    BY <1>1, SetCPSRStores, SetCPSRKeeps DEF Keeps
  <2> QED BY <2>1 DEF SavedStable
<1>2. CASE s.mode \in ValidModes
  <2>1. /\ r.cpsr = IF q.cpsr.mode = userMode THEN WithFlags(q.cpsr, s) ELSE s
        /\ r.spsr = IF s.mode = q.cpsr.mode THEN q.spsr
                    ELSE Saving(q, s.mode, q.cpsr)
    BY <1>2, SetCPSRStores
  <2>2. WithFlags(q.cpsr, s).mode = q.cpsr.mode
    BY DEF Good, Processors, Status, WithFlags
  <2> SUFFICES SavedStable(q, r)
    OBVIOUS
  <2> HIDE DEF r
  <2>3. CASE q.cpsr.mode = userMode
    BY <2>1, <2>2, <2>3 DEF SavedStable
  <2>4. CASE q.cpsr.mode # userMode /\ s.mode = q.cpsr.mode
    BY <2>1, <2>4 DEF SavedStable
  <2>5. CASE q.cpsr.mode # userMode /\ s.mode # q.cpsr.mode
    BY <2>1, <2>5, SavingIsStable
  <2> QED BY <2>3, <2>4, <2>5
<1> QED BY <1>1, <1>2

LEMMA SetSPSRIsStable ==
    ASSUME NEW q, Good(q), NEW s \in Status
    PROVE  SavedStable(q, SetSPSR(q, s).p)
<1>1. CASE q.cpsr.mode \notin SavedModes
  BY <1>1 DEF SetSPSR, Fail, SavedStable
<1>2. CASE q.cpsr.mode \in SavedModes
  <2>1. SetSPSR(q, s).p.cpsr = q.cpsr
    BY SetSPSRKeeps
  <2>2. SetSPSR(q, s).p.spsr = Saving(q, q.cpsr.mode, s)
    BY <1>2 DEF SetSPSR, Done, Good, Processors, Saving
  <2> QED BY <2>1, <2>2, SavingIsStable
<1> QED BY <1>1, <1>2

LEMMA EnterExceptionIsStable ==
    ASSUME NEW q, Good(q), NEW m \in ValidModes, NEW x \in Word, NEW v \in Word
    PROVE  SavedStable(q, EnterException(q, m, x, v).p)
<1>1. ASSUME NEW t, t = EnterException(q, m, x, v).p
      PROVE  SavedStable(q, t)
  <2>1. t.cpsr = Switched(q.cpsr, m) /\ t.spsr = Saving(q, m, q.cpsr)
    BY <1>1, EnterExceptionStores
  <2> QED BY <2>1, SwitchedMode, SavingIsStable
<1> QED BY <1>1

LEMMA SendIsStable ==
    ASSUME NEW q, Good(q)
    PROVE  SavedStable(q, SendIRQ(q).p) /\ SavedStable(q, SendFIQ(q).p)
<1>1. PC(q) \in Word
  BY SlotExists, WordSpaceAssumption
  DEF PC, GetRegister, Good, Processors, Word
<1>2. ReturnAddress(q) \in Word /\ 24 \in Word /\ 28 \in Word
  BY <1>1, WordSpaceAssumption DEF ReturnAddress, Word
<1>3. {irqMode, fiqMode} \subseteq ValidModes
  BY DEF ValidModes, SavedModes
<1>4. /\ SavedStable(q, EnterException(q, irqMode, ReturnAddress(q), 24).p)
      /\ SavedStable(q, EnterException(q, fiqMode, ReturnAddress(q), 28).p)
  BY <1>2, <1>3, EnterExceptionIsStable
<1>5. SavedStable(q, q)
  BY DEF SavedStable
<1> QED BY <1>4, <1>5 DEF SendIRQ, SendFIQ, Done

\* No call writes an SPSR on behalf of a mode that was not asked for.
THEOREM SavedStatusIsStable == Spec => SavedStatusStability
<1>1. Inv /\ [Next]_vars =>
        [\A m \in SavedModes : p'.spsr[m] # p.spsr[m] =>
            p'.cpsr.mode = m
            \/ (p.cpsr.mode = userMode /\ p'.cpsr.mode = userMode)]_vars
  <2> SUFFICES ASSUME Good(p), Next PROVE SavedStable(p, p')
    BY DEF Inv, SavedStable
  <2> USE HostAssumption
  <2>1. ASSUME p'.spsr = p.spsr PROVE SavedStable(p, p')
    BY <2>1 DEF SavedStable
  <2>2. CASE CallSetMode
    BY <2>2, SetModeIsStable DEF CallSetMode, Returns
  <2>3. CASE CallSetCPSR
    BY <2>3, SetCPSRIsStable DEF CallSetCPSR, Returns
  <2>4. CASE CallSetSPSR
    BY <2>4, SetSPSRIsStable DEF CallSetSPSR, Returns
  <2>5. CASE CallSetFlag
    BY <2>1, <2>5 DEF CallSetFlag, Returns, SetFlag, Done, Good, Processors
  <2>6. CASE CallSetTHUMBMode
    BY <2>1, <2>6
    DEF CallSetTHUMBMode, Returns, SetTHUMBMode, Done, Good, Processors
  <2>7. CASE CallSetRegister
    BY <2>1, <2>7
    DEF CallSetRegister, Returns, SetRegister, Done, Fail, Good, Processors
  <2>8. CASE CallSetUserRegister
    BY <2>1, <2>8
    DEF CallSetUserRegister, Returns, SetUserRegister, Done, Fail, Good, Processors
  <2>9. CASE CallSendIRQ
    BY <2>9, SendIsStable DEF CallSendIRQ, Returns
  <2>10. CASE CallSendFIQ
    BY <2>10, SendIsStable DEF CallSendFIQ, Returns
  <2> QED BY <2>2, <2>3, <2>4, <2>5, <2>6, <2>7, <2>8, <2>9, <2>10 DEF Next
<1> QED BY <1>1, Invariance, PTL DEF Spec, SavedStatusStability

-----------------------------------------------------------------------------
\* The register banks

\* Two modes name the same array element exactly for a register they share.
LEMMA SlotsAreBanks ==
    ASSUME NEW m1 \in ValidModes, NEW m2 \in ValidModes,
           NEW n1 \in 0 .. 15, NEW n2 \in 0 .. 15
    PROVE  RegisterSlot(m1, n1) = RegisterSlot(m2, n2)
               <=> n1 = n2 /\ Banked!Shares(m1, m2, n1)
BY DEF RegisterSlot, Banked!Shares, Private, ValidModes, SavedModes, userMode,
       fiqMode, irqMode, supervisorMode, abortMode, undefinedMode, systemMode

LEMMA VisibleIsStored ==
    ASSUME NEW q, Good(q), NEW n \in 0 .. 15, NEW m \in ValidModes
    PROVE  /\ Visible(q)[n][m] = q.regs[RegisterSlot(m, n)]
           /\ Visible(q)[n][m] \in Word
<1>1. [q EXCEPT !.cpsr.mode = m].cpsr.mode = m
      /\ [q EXCEPT !.cpsr.mode = m].regs = q.regs
  BY DEF Good, Processors, Status
<1>2. RegisterSlot(m, n) \in Slots
  BY SlotExists
<1>3. GetRegister([q EXCEPT !.cpsr.mode = m], n).value
        = q.regs[RegisterSlot(m, n)]
  BY <1>1, <1>2 DEF GetRegister
<1> QED BY <1>2, <1>3 DEF Visible, Good, Processors

\* Processors with the same arrays show the same registers.
LEMMA SameRegsSameView ==
    ASSUME NEW q, NEW r, Good(q), Good(r), r.regs = q.regs
    PROVE  Visible(r) = Visible(q)
<1>1. ASSUME NEW n \in 0 .. 15, NEW m \in ValidModes
      PROVE  Visible(r)[n][m] = Visible(q)[n][m]
  <2>1. Visible(q)[n][m] = q.regs[RegisterSlot(m, n)]
    BY VisibleIsStored
  <2>2. Visible(r)[n][m] = r.regs[RegisterSlot(m, n)]
    BY VisibleIsStored
  <2> QED BY <2>1, <2>2
<1> QED BY <1>1 DEF Visible

\* A write of one array element is seen by the modes sharing that register.
LEMMA WriteIsSeen ==
    ASSUME NEW q, NEW r, Good(q), Good(r),
           NEW m \in ValidModes, NEW n \in 0 .. 15, NEW x \in Word,
           r.regs = [q.regs EXCEPT ![RegisterSlot(m, n)] = x]
    PROVE  /\ Visible(r)[n][m] = x
           /\ \A k \in ValidModes :
                Visible(r)[n][k] = IF Banked!Shares(m, k, n) THEN x
                                   ELSE Visible(q)[n][k]
           /\ \A j \in (0 .. 15) \ {n} : Visible(r)[j] = Visible(q)[j]
<1>1. ASSUME NEW j \in 0 .. 15, NEW k \in ValidModes
      PROVE  Visible(r)[j][k] = IF j = n /\ Banked!Shares(m, k, n) THEN x
                                ELSE Visible(q)[j][k]
  <2>1. RegisterSlot(k, j) \in Slots /\ RegisterSlot(m, n) \in Slots
    BY SlotExists
  <2>2. RegisterSlot(m, n) = RegisterSlot(k, j)
            <=> j = n /\ Banked!Shares(m, k, n)
    BY SlotsAreBanks
  <2> QED BY <2>1, <2>2, VisibleIsStored DEF Good, Processors
<1>2. Banked!Shares(m, m, n)
  BY DEF Banked!Shares
<1>3. ASSUME NEW j \in (0 .. 15) \ {n} PROVE Visible(r)[j] = Visible(q)[j]
  <2>1. \A k \in ValidModes : Visible(r)[j][k] = Visible(q)[j][k]
    BY <1>1
  <2> QED BY <2>1 DEF Visible
<1> QED BY <1>1, <1>2, <1>3

\* An exception is seen as one step: the mode, its own lr and the pc.
LEMMA EnterIsSeen ==
    ASSUME NEW q, Good(q), NEW m \in ValidModes, NEW x \in Word, NEW v \in Word,
           NEW r, r = EnterException(q, m, x, v).p
    PROVE  /\ r.cpsr.mode = m
           /\ Visible(r)[14][m] = x
           /\ \A k \in ValidModes :
                Visible(r)[14][k] = IF Banked!Shares(m, k, 14) THEN x
                                    ELSE Visible(q)[14][k]
           /\ \A k \in ValidModes : Visible(r)[15][k] = v
           /\ \A j \in (0 .. 15) \ {14, 15} : Visible(r)[j] = Visible(q)[j]
<1> DEFINE a == SetMode(q, m).p
           b == SetRegister(a, 14, x).p
           c == SetRegister(b, 15, v).p
<1>1. Good(a) /\ a.regs = q.regs /\ a.cpsr.mode = m
  <2>1. Keeps(q, SetMode(q, m)) /\ a.regs = q.regs
        /\ a.cpsr = [q.cpsr EXCEPT !.mode = m]
    BY SetModeKeeps
  <2>2. [q.cpsr EXCEPT !.mode = m].mode = m
    BY DEF Good, Processors, Status
  <2> QED BY <2>1, <2>2 DEF Keeps
<1>2. Good(b) /\ b.cpsr = a.cpsr
  <2> HIDE DEF a
  <2> QED BY <1>1, SetRegisterKeeps DEF Keeps
<1>3. Good(c) /\ c.cpsr = b.cpsr
  <2> HIDE DEF b
  <2> QED BY <1>2, SetRegisterKeeps DEF Keeps
<1>4. r = c
  BY DEF EnterException
<1>5. b.regs = [q.regs EXCEPT ![RegisterSlot(m, 14)] = x]
  <2> HIDE DEF a
  <2> QED BY <1>1 DEF SetRegister, Done, Good, Processors
<1>6. c.regs = [b.regs EXCEPT ![RegisterSlot(m, 15)] = v]
  <2> HIDE DEF a, b
  <2> QED BY <1>1, <1>2 DEF SetRegister, Done, Good, Processors
<1> HIDE DEF a, b, c
<1>7. /\ \A k \in ValidModes :
             Visible(b)[14][k] = IF Banked!Shares(m, k, 14) THEN x
                                 ELSE Visible(q)[14][k]
      /\ Visible(b)[14][m] = x
      /\ \A j \in (0 .. 15) \ {14} : Visible(b)[j] = Visible(q)[j]
  BY <1>2, <1>5, WriteIsSeen
<1>8. /\ \A k \in ValidModes :
             Visible(c)[15][k] = IF Banked!Shares(m, k, 15) THEN v
                                 ELSE Visible(b)[15][k]
      /\ \A j \in (0 .. 15) \ {15} : Visible(c)[j] = Visible(b)[j]
  BY <1>2, <1>3, <1>6, WriteIsSeen
<1>9. \A k \in ValidModes : Banked!Shares(m, k, 15)
  BY DEF Banked!Shares, Private
<1> QED BY <1>1, <1>2, <1>3, <1>4, <1>7, <1>8, <1>9

\* The calls that only touch status registers.
LEMMA StatusCallsSwitch ==
    ASSUME Good(p), Good(p'), p'.regs = p.regs
    PROVE  Banked!Switch
<1>1. Visible(p') = Visible(p)
  BY SameRegsSameView
<1> QED BY <1>1 DEF Banked!Switch, Banked!Kept, Good

\* A successful register write is an abstract write through some mode.
LEMMA WriteCallsWrite ==
    ASSUME Good(p), Good(p'), p'.cpsr = p.cpsr,
           NEW n \in 0 .. 15, NEW x \in Word, NEW m \in {p.cpsr.mode, userMode},
           p'.regs = [p.regs EXCEPT ![RegisterSlot(m, n)] = x]
    PROVE  Banked!Write(n)
<1>1. m \in ValidModes
  BY DEF Good, ValidModes
<1>2. Banked!Stored(n, m) /\ Banked!Kept((0 .. 15) \ {n})
  BY <1>1, WriteIsSeen DEF Banked!Stored, Banked!Kept
<1> QED BY <1>2 DEF Banked!Write, Banked!Numbers

\* SendIRQ and SendFIQ are the abstract exception entry, or nothing.
LEMMA InterruptsEnter ==
    ASSUME Good(p), NEW m \in ValidModes, NEW v \in Word,
           p' = EnterException(p, m, ReturnAddress(p), v).p
    PROVE  Banked!Enter(m)
<1>1. ReturnAddress(p) \in Word
  BY SlotExists, WordSpaceAssumption
  DEF ReturnAddress, PC, GetRegister, Good, Processors, Word
<1>2. /\ p'.cpsr.mode = m
      /\ Visible(p')[14][m] = ReturnAddress(p)
      /\ \A k \in ValidModes :
             Visible(p')[14][k] = IF Banked!Shares(m, k, 14)
                                    THEN ReturnAddress(p)
                                    ELSE Visible(p)[14][k]
      /\ \A k \in ValidModes : Visible(p')[15][k] = v
      /\ \A j \in (0 .. 15) \ {14, 15} : Visible(p')[j] = Visible(p)[j]
  BY <1>1, EnterIsSeen
<1>3. \A k \in ValidModes : Banked!Shares(m, k, 15)
  BY DEF Banked!Shares, Private
<1>4. Banked!Stored(14, m)
  BY <1>1, <1>2 DEF Banked!Stored
<1>5. Banked!Stored(15, m)
  BY <1>2, <1>3 DEF Banked!Stored
<1> QED BY <1>2, <1>4, <1>5 DEF Banked!Enter, Banked!Kept, Banked!Numbers

BankedStep == [Banked!Next]_<<p.cpsr.mode, Visible(p)>>

\* Every call is a step of the abstract register file, or none of its business.
LEMMA CallsAreBanked ==
    ASSUME Inv, Inv', [Next]_vars
    PROVE  BankedStep
<1>0. Good(p) /\ Good(p')
  BY DEF Inv
<1> USE HostAssumption
<1>1. ASSUME p'.regs = p.regs PROVE BankedStep
  BY <1>0, <1>1, StatusCallsSwitch DEF BankedStep, Banked!Next
<1>2. CASE CallSetMode
  <2>1. PICK m \in HostModes : p' = SetMode(p, m).p
    BY <1>2 DEF CallSetMode, Returns
  <2>2. p'.regs = p.regs
    BY <1>0, <2>1, SetModeKeeps
  <2> QED BY <1>1, <2>2
<1>3. CASE CallSetCPSR
  BY <1>0, <1>1, <1>3, SetCPSRKeeps DEF CallSetCPSR, Returns
<1>4. CASE CallSetSPSR
  BY <1>0, <1>1, <1>4, SetSPSRKeeps DEF CallSetSPSR, Returns
<1>5. CASE CallSetFlag
  BY <1>0, <1>1, <1>5
  DEF CallSetFlag, Returns, SetFlag, Done, Good, Processors
<1>6. CASE CallSetTHUMBMode
  BY <1>0, <1>1, <1>6
  DEF CallSetTHUMBMode, Returns, SetTHUMBMode, Done, Good, Processors
<1>7. CASE CallSetRegister
  <2>1. PICK n \in HostRegisters, x \in HostValues :
            p' = SetRegister(p, n, x).p
    BY <1>7 DEF CallSetRegister, Returns
  <2>2. CASE n > 15
    BY <1>1, <2>1, <2>2 DEF SetRegister, Fail
  <2>3. CASE n \in 0 .. 15
    <3>1. /\ p'.cpsr = p.cpsr
          /\ p'.regs = [p.regs EXCEPT ![RegisterSlot(p.cpsr.mode, n)] = x]
      BY <1>0, <2>1, <2>3 DEF SetRegister, Done, Good, Processors
    <3>2. x \in Word /\ p.cpsr.mode \in {p.cpsr.mode, userMode}
      OBVIOUS
    <3>3. Banked!Write(n)
      BY <1>0, <2>3, <3>1, <3>2, WriteCallsWrite
    <3> QED BY <2>3, <3>3 DEF BankedStep, Banked!Next, Banked!Numbers
  <2> QED BY <2>2, <2>3
<1>8. CASE CallSetUserRegister
  <2>1. PICK n \in HostRegisters, x \in HostValues :
            p' = SetUserRegister(p, n, x).p
    BY <1>8 DEF CallSetUserRegister, Returns
  <2>2. CASE n > 15
    BY <1>1, <2>1, <2>2 DEF SetUserRegister, Fail
  <2>3. CASE n \in 0 .. 15
    <3>1. RegisterSlot(userMode, n) = <<userMode, n>>
      BY DEF RegisterSlot
    <3>2. /\ p'.cpsr = p.cpsr
          /\ p'.regs = [p.regs EXCEPT ![RegisterSlot(userMode, n)] = x]
      BY <1>0, <2>1, <2>3, <3>1 DEF SetUserRegister, Done, Good, Processors
    <3>3. x \in Word /\ userMode \in {p.cpsr.mode, userMode}
      OBVIOUS
    <3>4. Banked!Write(n)
      BY <1>0, <2>3, <3>2, <3>3, WriteCallsWrite
    <3> QED BY <2>3, <3>4 DEF BankedStep, Banked!Next, Banked!Numbers
  <2> QED BY <2>2, <2>3
<1>9. 24 \in Word /\ 28 \in Word /\ {irqMode, fiqMode} \subseteq ValidModes
  BY WordSpaceAssumption DEF Word, ValidModes, SavedModes
<1>10. CASE CallSendIRQ
  <2>1. CASE p.cpsr.irqDisabled
    BY <1>1, <1>10, <2>1 DEF CallSendIRQ, Returns, SendIRQ, Done
  <2>2. CASE ~p.cpsr.irqDisabled
    <3>1. p' = EnterException(p, irqMode, ReturnAddress(p), 24).p
      BY <1>10, <2>2 DEF CallSendIRQ, Returns, SendIRQ
    <3>2. Banked!Enter(irqMode)
      BY <1>0, <1>9, <3>1, InterruptsEnter
    <3> QED BY <1>9, <3>2 DEF BankedStep, Banked!Next
  <2> QED BY <2>1, <2>2
<1>11. CASE CallSendFIQ
  <2>1. CASE p.cpsr.fiqDisabled
    BY <1>1, <1>11, <2>1 DEF CallSendFIQ, Returns, SendFIQ, Done
  <2>2. CASE ~p.cpsr.fiqDisabled
    <3>1. p' = EnterException(p, fiqMode, ReturnAddress(p), 28).p
      BY <1>11, <2>2 DEF CallSendFIQ, Returns, SendFIQ
    <3>2. Banked!Enter(fiqMode)
      BY <1>0, <1>9, <3>1, InterruptsEnter
    <3> QED BY <1>9, <3>2 DEF BankedStep, Banked!Next
  <2> QED BY <2>1, <2>2
<1>12. CASE UNCHANGED vars
  BY <1>12 DEF vars, BankedStep
<1> QED BY <1>2, <1>3, <1>4, <1>5, <1>6, <1>7, <1>8, <1>10, <1>11, <1>12 DEF Next

\* The arrays of basicARMProcessor implement the ARM register banks: each mode
\* sees its own registers and writes are seen by the modes that share them,
\* whatever the host calls and in whatever order.
THEOREM ImplementsBankedRegisters == Spec => RegistersAreBanked
<1>1. Init => Banked!Init
  <2> SUFFICES ASSUME Init PROVE Banked!Init
    OBVIOUS
  <2>1. Good(p)
    BY InitGood DEF Inv
  <2>2. \A n \in 0 .. 15, m \in ValidModes : Visible(p)[n][m] = 0
    BY <2>1, VisibleIsStored, SlotExists DEF Init, NewARMProcessor
  <2> QED BY <2>1, <2>2 DEF Banked!Init, Banked!Numbers, Visible, Good
<1>2. Inv /\ Inv' /\ [Next]_vars => BankedStep
  BY CallsAreBanked
<1> QED BY <1>1, <1>2, Invariance, PTL
        DEF Spec, RegistersAreBanked, Banked!Spec, BankedStep
=============================================================================
