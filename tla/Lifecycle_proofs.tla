----------------------------- MODULE Lifecycle_proofs -----------------------------
(***************************************************************************)
(* Proofs about Lifecycle, for any set of bytes closed under complement    *)
(* and any addresses of _exit and serial_isr.                              *)
(*                                                                         *)
(* LifeInv says for each program point which bytes of which vector are the *)
(* predecessor's and which are the program's.  ResetInv covers SOFTEV and  *)
(* PWREDUP, IrqInv covers IRQVEC, the card and the handler's bookkeeping.  *)
(***************************************************************************)
EXTENDS Lifecycle, TLAPS

WasValid == before.pwredup = before.softev[2]

\* Program points at which _exit is the valid warm-reset vector
GuardedPc == InstallPc \cup RemovePc \cup {"run", "res_invalidate"}
\* ... at which serial_isr_installed is known
QuietPc == {"dos", "cold"} \cup Crt0Pc \cup RestorePc
           \cup {"serial_init", "ins_sei", "ins_save", "ins_mark", "rem_cli"}
BusyPc  == {"ins_lo", "ins_hi", "ins_arm", "ins_cli", "run", "rem_cmd", "rem_lo",
            "rem_hi", "rem_mark"}
\* ... and at which interrupts are masked
MaskedPc == {"ins_save", "ins_mark", "ins_lo", "ins_hi", "ins_arm", "ins_cli"}
            \cup RemovePc

\* The predecessor's reset vector has been saved.
Saved == /\ old_reset[1] = before.softev[1] /\ old_reset[2] = before.softev[2]
         /\ WasValid => old_reset[3] = before.softev[2]

ResetInv ==
  /\ before.softev # ExitVec
  /\ pc \in {"dos", "zerobss", "save_reset", "invalidate", "res_jmp"} =>
       Softev = before.softev /\ (WasValid => Valid)
  /\ pc \in {"invalidate", "set_lo", "set_hi", "publish", "res_lo", "res_hi", "res_valid"}
            \cup GuardedPc => Saved
  /\ pc = "set_lo" => Softev = before.softev
  /\ pc = "set_hi" => soft_lo = ExitLo /\ soft_hi = before.softev[2]
  /\ pc = "publish" => Softev = ExitVec
  /\ pc \in GuardedPc => Softev = ExitVec /\ Valid
  /\ pc = "res_lo" => Softev = ExitVec
  /\ pc = "res_hi" => soft_lo = before.softev[1] /\ soft_hi = ExitHi
  /\ pc = "res_valid" => Softev = before.softev
  /\ pc \in {"set_lo", "set_hi", "res_lo", "res_hi", "cold"} => ~Valid

\* The predecessor's interrupt vector has been saved, unless it was this handler.
Chained == /\ chain_valid <=> before.irqvec # IsrVec
           /\ chain_valid => old_irq = before.irqvec /\ chain_target = before.irqvec

IrqInv ==
  /\ pc \in QuietPc => ~installed
  /\ pc \in BusyPc => installed
  /\ ~installed => Irqvec = before.irqvec /\ command = "off"
  /\ installed => irq_lo \in {before.irqvec[1], IsrLo} /\ irq_hi \in {before.irqvec[2], IsrHi}
  /\ installed \/ pc = "ins_mark" => Chained
  /\ command = "on" => Irqvec = IsrVec
  /\ pc = "ins_hi" => irq_lo = IsrLo
  /\ pc \in {"ins_arm", "ins_cli", "run"} => Irqvec = IsrVec
  /\ pc \in {"ins_lo", "ins_hi", "ins_arm", "rem_lo", "rem_hi", "rem_mark"} => command = "off"
  /\ pc \in {"rem_lo", "rem_hi"} => chain_valid
  /\ pc = "rem_hi" => irq_lo = before.irqvec[1]
  /\ pc = "rem_mark" => Irqvec = before.irqvec
  /\ pc \in MaskedPc => iflag

LifeInv == TypeOK /\ ResetInv /\ IrqInv

--------------------------------------------------------------------------------
\* The bytes the program stores are bytes, and no byte is its own complement.
LEMMA ByteFacts ==
  /\ {0, 255, ExitLo, ExitHi, IsrLo, IsrHi} \subseteq Byte
  /\ \A b \in Byte : Complement(b) \in Byte /\ Complement(b) # b
BY ByteAssumption, AddressAssumption DEF Complement

LEMMA TypeInit == Init => TypeOK
<1> SUFFICES ASSUME Init PROVE TypeOK
  OBVIOUS
<1>1. Softev \in Vector /\ Irqvec \in Vector /\ pwredup \in Byte
  BY DEF Init, Softev, Irqvec, Vector
<1>2. before \in [softev : Vector, pwredup : Byte, irqvec : Vector]
  BY <1>1 DEF Init
<1>3. old_reset \in Byte \X Byte \X Byte /\ old_irq \in Vector /\ chain_target \in Vector
  BY ByteFacts DEF Init, Vector
<1>4. pc \in Pc
  BY DEF Init, Pc
<1> QED
  BY <1>2, <1>3, <1>4 DEF Init, TypeOK

LEMMA TypeStep == TypeOK /\ [Next]_vars => TypeOK'
<1> SUFFICES ASSUME TypeOK, [Next]_vars PROVE TypeOK'
  OBVIOUS
<1> USE ByteFacts
    DEF TypeOK, Go, Pc, Crt0Pc, InstallPc, RemovePc, RestorePc, Vector,
        resetVars, irqVars, bssVars
<1>1. CASE Brun
  BY <1>1 DEF Brun
<1>2. CASE ZeroBss
  BY <1>2 DEF ZeroBss
<1>3. CASE SaveReset
  BY <1>3 DEF SaveReset
<1>4. CASE Invalidate
  BY <1>4 DEF Invalidate
<1>5. CASE SetLo
  BY <1>5 DEF SetLo
<1>6. CASE SetHi
  BY <1>6 DEF SetHi
<1>7. CASE Publish
  BY <1>7 DEF Publish
<1>8. CASE WarmStart
  BY <1>8 DEF WarmStart
<1>9. CASE SerialInit
  BY <1>9 DEF SerialInit
<1>10. CASE Sei
  BY <1>10 DEF Sei
<1>11. CASE SaveChain
  <2>1. Irqvec \in Vector /\ <<0, 0>> \in Vector
    BY DEF Irqvec
  <2> QED
    BY <1>11, <2>1 DEF SaveChain
<1>12. CASE MarkInstalled
  BY <1>12 DEF MarkInstalled
<1>13. CASE SetIrqLo
  BY <1>13 DEF SetIrqLo
<1>14. CASE SetIrqHi
  BY <1>14 DEF SetIrqHi
<1>15. CASE Arm
  BY <1>15 DEF Arm
<1>16. CASE Cli
  BY <1>16 DEF Cli
<1>17. CASE RemoveTest
  BY <1>17 DEF RemoveTest
<1>18. CASE Disarm
  BY <1>18 DEF Disarm
<1>19. CASE MarkRemoved
  BY <1>19 DEF MarkRemoved
<1>20. CASE CtrlReset
  BY <1>20 DEF CtrlReset
<1>21. CASE Reboot
  <2>1. before' \in [softev : Vector, pwredup : Byte, irqvec : Vector]
    BY <1>21 DEF Reboot, Softev, Irqvec
  <2> QED
    BY <1>21, <2>1 DEF Reboot
<1>22. CASE UNCHANGED vars
  BY <1>22 DEF vars
<1> QED
  BY <1>1, <1>2, <1>3, <1>4, <1>5, <1>6, <1>7, <1>8, <1>9, <1>10, <1>11, <1>12,
     <1>13, <1>14, <1>15, <1>16, <1>17, <1>18, <1>19, <1>20, <1>21, <1>22
  DEF Next, Program, Crt0, Install, Remove

\* TypeOK is an invariant of the start-up, reset and teardown code for any bytes and
\* addresses.
THEOREM TypeCorrect == Spec => []TypeOK
BY TypeInit, TypeStep, PTL DEF Spec

--------------------------------------------------------------------------------
LEMMA ResetInit == Init => ResetInv
BY DEF Init, ResetInv, GuardedPc, InstallPc, RemovePc, Softev, Valid, WasValid

LEMMA ResetStep == TypeOK /\ ResetInv /\ [Next]_vars => ResetInv'
<1> SUFFICES ASSUME TypeOK, ResetInv, [Next]_vars PROVE ResetInv'
  OBVIOUS
<1> USE ByteFacts
    DEF TypeOK, Vector, ResetInv, GuardedPc, InstallPc, RemovePc, Saved,
        Softev, ExitVec, Valid, WasValid, Go, resetVars, irqVars, bssVars
<1>1. CASE Brun
  BY <1>1 DEF Brun
<1>2. CASE ZeroBss
  BY <1>2 DEF ZeroBss
<1>3. CASE SaveReset
  BY <1>3 DEF SaveReset
<1>4. CASE Invalidate
  <2>1. pwredup' # soft_hi'
    <3>1. soft_hi \in Byte /\ soft_hi' = soft_hi /\ pwredup' = Complement(soft_hi)
      BY <1>4 DEF Invalidate
    <3> QED
      BY ONLY <3>1, ByteFacts
  <2>2. CASE pc = "invalidate"
    BY <1>4, <2>1, <2>2 DEF Invalidate
  <2>3. CASE pc = "res_invalidate"
    BY <1>4, <2>1, <2>3 DEF Invalidate
  <2> QED
    BY <1>4, <2>2, <2>3 DEF Invalidate
<1>5. CASE SetLo
  BY <1>5 DEF SetLo
<1>6. CASE SetHi
  BY <1>6 DEF SetHi
<1>7. CASE Publish
  BY <1>7 DEF Publish
<1>8. CASE WarmStart
  BY <1>8 DEF WarmStart
<1>9. CASE SerialInit
  BY <1>9 DEF SerialInit
<1>10. CASE Sei
  BY <1>10 DEF Sei
<1>11. CASE SaveChain
  BY <1>11 DEF SaveChain
<1>12. CASE MarkInstalled
  BY <1>12 DEF MarkInstalled
<1>13. CASE SetIrqLo
  BY <1>13 DEF SetIrqLo
<1>14. CASE SetIrqHi
  BY <1>14 DEF SetIrqHi
<1>15. CASE Arm
  BY <1>15 DEF Arm
<1>16. CASE Cli
  BY <1>16 DEF Cli
<1>17. CASE RemoveTest
  BY <1>17 DEF RemoveTest
<1>18. CASE Disarm
  BY <1>18 DEF Disarm
<1>19. CASE MarkRemoved
  BY <1>19 DEF MarkRemoved
<1>20. CASE CtrlReset
  <2>1. UNCHANGED <<soft_lo, soft_hi, pwredup, old_reset, before>>
    BY <1>20 DEF CtrlReset
  <2>2. CASE ~Valid
    <3>1. pc' = "cold"
      BY <1>20, <2>2 DEF CtrlReset
    <3> QED
      BY <2>1, <2>2, <3>1
  <2>3. CASE Valid /\ Softev = ExitVec
    <3>1. pc' = "rem_sei"
      BY <1>20, <2>3 DEF CtrlReset
    <3>2. Saved
      BY <1>20, <2>3 DEF CtrlReset, Pc, Crt0Pc, RestorePc
    <3> QED
      BY <2>1, <2>3, <3>1, <3>2
  <2>4. CASE Valid /\ Softev # ExitVec
    <3>1. pc' = "dos"
      BY <1>20, <2>4 DEF CtrlReset
    <3>2. Softev = before.softev
      BY <1>20, <2>4 DEF CtrlReset, Pc, Crt0Pc, RestorePc
    <3> QED
      BY <2>1, <2>4, <3>1, <3>2
  <2> QED
    BY <2>2, <2>3, <2>4
<1>21. CASE Reboot
  BY <1>21 DEF Reboot
<1>22. CASE UNCHANGED vars
  BY <1>22 DEF vars
<1> QED
  BY <1>1, <1>2, <1>3, <1>4, <1>5, <1>6, <1>7, <1>8, <1>9, <1>10, <1>11, <1>12,
     <1>13, <1>14, <1>15, <1>16, <1>17, <1>18, <1>19, <1>20, <1>21, <1>22
  DEF Next, Program, Crt0, Install, Remove

--------------------------------------------------------------------------------
LEMMA IrqInit == Init => IrqInv
BY DEF Init, IrqInv, QuietPc, BusyPc, MaskedPc, Crt0Pc, RestorePc, RemovePc, Irqvec

LEMMA IrqStep == TypeOK /\ ResetInv /\ IrqInv /\ [Next]_vars => IrqInv'
<1> SUFFICES ASSUME TypeOK, ResetInv, IrqInv, [Next]_vars PROVE IrqInv'
  OBVIOUS
<1> USE ByteFacts
    DEF TypeOK, Vector, IrqInv, QuietPc, BusyPc, MaskedPc, Crt0Pc,
        RestorePc, RemovePc, Chained, Irqvec, IsrVec, Go, resetVars,
        irqVars, bssVars
<1>1. CASE Brun
  BY <1>1 DEF Brun
<1>2. CASE ZeroBss
  BY <1>2 DEF ZeroBss
<1>3. CASE SaveReset
  BY <1>3 DEF SaveReset
<1>4. CASE Invalidate
  BY <1>4 DEF Invalidate
<1>5. CASE SetLo
  BY <1>5 DEF SetLo
<1>6. CASE SetHi
  BY <1>6 DEF SetHi
<1>7. CASE Publish
  BY <1>7 DEF Publish
<1>8. CASE WarmStart
  BY <1>8 DEF WarmStart
<1>9. CASE SerialInit
  BY <1>9 DEF SerialInit
<1>10. CASE Sei
  BY <1>10 DEF Sei
<1>11. CASE SaveChain
  BY <1>11 DEF SaveChain
<1>12. CASE MarkInstalled
  BY <1>12 DEF MarkInstalled
<1>13. CASE SetIrqLo
  BY <1>13 DEF SetIrqLo
<1>14. CASE SetIrqHi
  BY <1>14 DEF SetIrqHi
<1>15. CASE Arm
  BY <1>15 DEF Arm
<1>16. CASE Cli
  BY <1>16 DEF Cli
<1>17. CASE RemoveTest
  BY <1>17 DEF RemoveTest
<1>18. CASE Disarm
  BY <1>18 DEF Disarm
<1>19. CASE MarkRemoved
  BY <1>19 DEF MarkRemoved
<1>20. CASE CtrlReset
  <2>1. pc' \in {"cold", "rem_sei", "dos"} /\ iflag'
    BY <1>20 DEF CtrlReset
  <2>2. pc' # "rem_sei" => ~installed
    BY <1>20 DEF CtrlReset, ResetInv, GuardedPc, InstallPc, Softev, ExitVec, Valid, Pc
  <2>3. command' \in {command, "off"}
    BY <1>20 DEF CtrlReset
  <2>4. UNCHANGED <<irq_lo, irq_hi, installed, chain_valid, old_irq, chain_target, before>>
    BY <1>20 DEF CtrlReset
  <2> QED
    BY <2>1, <2>2, <2>3, <2>4
<1>21. CASE Reboot
  BY <1>21 DEF Reboot, Softev, ExitVec
<1>22. CASE UNCHANGED vars
  BY <1>22 DEF vars
<1> QED
  BY <1>1, <1>2, <1>3, <1>4, <1>5, <1>6, <1>7, <1>8, <1>9, <1>10, <1>11, <1>12,
     <1>13, <1>14, <1>15, <1>16, <1>17, <1>18, <1>19, <1>20, <1>21, <1>22
  DEF Next, Program, Crt0, Install, Remove

LEMMA LifeInductive == Spec => []LifeInv
<1>1. Init => LifeInv
  BY TypeInit, ResetInit, IrqInit DEF LifeInv
<1>2. LifeInv /\ [Next]_vars => LifeInv'
  BY TypeStep, ResetStep, IrqStep DEF LifeInv
<1> QED
  BY <1>1, <1>2, PTL DEF Spec

\* A valid warm-reset vector is the predecessor's or _exit, never a mixture, whatever
\* instruction of crt0.s a Ctrl-Reset precedes.
THEOREM NoMixedResetCorrect == Spec => []NoMixedReset
<1>1. LifeInv => NoMixedReset
  <2> SUFFICES ASSUME LifeInv, Valid PROVE Softev \in {before.softev, ExitVec}
    BY DEF NoMixedReset
  <2>1. pc \in Pc \ {"set_lo", "set_hi", "res_lo", "res_hi", "cold"}
    BY DEF LifeInv, TypeOK, ResetInv
  <2> QED
    BY <2>1 DEF LifeInv, ResetInv, Pc, Crt0Pc, RestorePc, GuardedPc
<1> QED
  BY <1>1, LifeInductive, PTL

\* Interrupts are taken through whole vectors only: serial_isr_install and
\* serial_isr_remove change IRQVEC with interrupts masked.
THEOREM WholeIrqVectorCorrect == Spec => []WholeIrqVector
<1>1. LifeInv => WholeIrqVector
  <2> SUFFICES ASSUME LifeInv, ~iflag PROVE Irqvec \in {before.irqvec, IsrVec}
    BY DEF WholeIrqVector
  <2>1. pc \in Pc \ MaskedPc
    BY DEF LifeInv, TypeOK, IrqInv
  <2> QED
    BY <2>1 DEF LifeInv, IrqInv, Pc, Crt0Pc, InstallPc, RestorePc, QuietPc, MaskedPc,
                RemovePc
<1> QED
  BY <1>1, LifeInductive, PTL

\* The card is armed only while IRQVEC leads to the installed handler.
THEOREM ArmedOnlyInstalledCorrect == Spec => []ArmedOnlyInstalled
<1>1. LifeInv => ArmedOnlyInstalled
  BY DEF LifeInv, IrqInv, ArmedOnlyInstalled
<1> QED
  BY <1>1, LifeInductive, PTL

\* Whatever would have to be undone after a Ctrl-Reset is guarded by a valid _exit
\* vector from before it is done until after it is undone.
THEOREM CleanupGuardedCorrect == Spec => []CleanupGuarded
<1>1. LifeInv => CleanupGuarded
  <2> SUFFICES ASSUME LifeInv, command = "on" \/ installed \/ Irqvec # before.irqvec
               PROVE  Valid /\ Softev = ExitVec
    BY DEF CleanupGuarded
  <2>1. installed
    BY DEF LifeInv, IrqInv
  <2>2. pc \in Pc \ QuietPc
    BY <2>1 DEF LifeInv, TypeOK, IrqInv
  <2>3. pc \in GuardedPc
    BY <2>2 DEF Pc, QuietPc, Crt0Pc, RestorePc, GuardedPc, InstallPc
  <2> QED
    BY <2>3 DEF LifeInv, ResetInv
<1> QED
  BY <1>1, LifeInductive, PTL

\* Back in DOS the vectors and the card are as DOS had left them, after a return of
\* _exit or a Ctrl-Reset at any moment, any number of times.
THEOREM TeardownCompleteCorrect == Spec => []TeardownComplete
<1>1. LifeInv => TeardownComplete
  BY DEF LifeInv, ResetInv, IrqInv, QuietPc, WasValid, TeardownComplete
<1> QED
  BY <1>1, LifeInductive, PTL

\* The handler never chains to itself.
THEOREM NoSelfChainCorrect == Spec => []NoSelfChain
<1>1. LifeInv => NoSelfChain
  BY DEF LifeInv, IrqInv, Chained, NoSelfChain
<1> QED
  BY <1>1, LifeInductive, PTL

================================================================================
