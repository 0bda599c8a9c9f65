-------------------------------- MODULE Lifecycle --------------------------------
(***************************************************************************)
(* The life of the terminal in the machine it is loaded into: crt0.s takes *)
(* over the Monitor's warm-reset vector, serial_init installs the interrupt*)
(* handler (serial_isr_install), and _exit, which is both the return path  *)
(* and the reset vector, undoes both.  Ctrl-Reset may strike before any    *)
(* instruction, so every store to a vector is a step of its own, and so is *)
(* every change of the I flag.                                             *)
(*                                                                         *)
(* PWREDUP validates SOFTEV when it equals the vector's high byte EOR $A5. *)
(* It is modelled by the high byte it validates: storing hi EOR $A5 sets   *)
(* pwredup to hi, and storing hi EOR $5A, whose bits all differ, sets it   *)
(* to the complement of hi.                                                *)
(***************************************************************************)
EXTENDS Integers

CONSTANTS Byte,     \* the bytes that vectors are made of
          ExitLo, ExitHi,  \* the address of _exit
          IsrLo, IsrHi     \* the address of serial_isr

Complement(b) == 255 - b

ASSUME ByteAssumption ==
  /\ Byte \subseteq 0 .. 255
  /\ \A b \in Byte : Complement(b) \in Byte
ASSUME AddressAssumption == {0, 255, ExitLo, ExitHi, IsrLo, IsrHi} \subseteq Byte

VARIABLES
  pc,                          \* the next instruction, "dos" and "cold" outside
  iflag,                       \* the I flag: TRUE masks interrupts
  soft_lo, soft_hi, pwredup,   \* SOFTEV and PWREDUP
  old_reset,                   \* BSS: serial_old_reset
  irq_lo, irq_hi,              \* IRQVEC
  old_irq, chain_valid, chain_target, installed,  \* the handler's BSS and operand
  command,                     \* the ACIA's command register
  before                       \* history: the vectors DOS set up

resetVars == <<soft_lo, soft_hi, pwredup>>
irqVars   == <<irq_lo, irq_hi>>
bssVars   == <<old_reset, old_irq, chain_valid, installed>>
vars == <<pc, iflag, resetVars, irqVars, bssVars, chain_target, command, before>>

Softev  == <<soft_lo, soft_hi>>
Irqvec  == <<irq_lo, irq_hi>>
ExitVec == <<ExitLo, ExitHi>>
IsrVec  == <<IsrLo, IsrHi>>
Valid   == pwredup = soft_hi

Crt0Pc    == {"zerobss", "save_reset", "invalidate", "set_lo", "set_hi", "publish"}
InstallPc == {"serial_init", "ins_sei", "ins_save", "ins_mark", "ins_lo", "ins_hi",
              "ins_arm", "ins_cli"}
RemovePc  == {"rem_sei", "rem_test", "rem_cmd", "rem_lo", "rem_hi", "rem_mark",
              "rem_cli"}
RestorePc == {"res_invalidate", "res_lo", "res_hi", "res_valid", "res_jmp"}
Pc == {"dos", "cold", "run"} \cup Crt0Pc \cup InstallPc \cup RemovePc \cup RestorePc

\* DOS runs with a warm-reset vector of its own, valid or not, and some interrupt
\* vector, possibly this program's, left behind by an earlier load.
Init ==
  /\ pc = "dos" /\ iflag \in BOOLEAN
  /\ soft_lo \in Byte /\ soft_hi \in Byte /\ Softev # ExitVec /\ pwredup \in Byte
  /\ irq_lo \in Byte /\ irq_hi \in Byte
  /\ old_reset = <<0, 0, 0>> /\ old_irq = <<0, 0>>
  /\ chain_valid = FALSE /\ chain_target = <<255, 255>> /\ installed = FALSE
  /\ command = "off"
  /\ before = [softev |-> Softev, pwredup |-> pwredup, irqvec |-> Irqvec]

Go(from, to) == pc = from /\ pc' = to

--------------------------------------------------------------------------------
(***************************************************************************)
(* crt0: BRUN loads the program, with an unpatched operand in its jump to  *)
(* the predecessor; then the reset vector is taken over.                   *)
(***************************************************************************)
Brun ==
  /\ Go("dos", "zerobss")
  /\ iflag' \in BOOLEAN
  /\ chain_target' = <<255, 255>>
  /\ UNCHANGED <<resetVars, irqVars, bssVars, command, before>>

ZeroBss ==
  /\ Go("zerobss", "save_reset")
  /\ old_reset' = <<0, 0, 0>> /\ old_irq' = <<0, 0>>
  /\ chain_valid' = FALSE /\ installed' = FALSE
  /\ UNCHANGED <<iflag, resetVars, irqVars, chain_target, command, before>>

SaveReset ==
  /\ Go("save_reset", "invalidate")
  /\ old_reset' = <<soft_lo, soft_hi, pwredup>>
  /\ UNCHANGED <<iflag, resetVars, irqVars, old_irq, chain_valid, installed,
                 chain_target, command, before>>

\* Deviation: the vector is replaced while PWREDUP still vouches for it.
Invalidate_Missing ==
  /\ Go("invalidate", "set_lo") \/ Go("res_invalidate", "res_lo")
  /\ UNCHANGED <<iflag, resetVars, irqVars, bssVars, chain_target, command, before>>

Invalidate ==
  /\ Go("invalidate", "set_lo") \/ Go("res_invalidate", "res_lo")
  /\ pwredup' = Complement(soft_hi)
  /\ UNCHANGED <<iflag, soft_lo, soft_hi, irqVars, bssVars, chain_target, command,
                 before>>

SetLo ==
  /\ \/ Go("set_lo", "set_hi") /\ soft_lo' = ExitLo
     \/ Go("res_lo", "res_hi") /\ soft_lo' = old_reset[1]
  /\ UNCHANGED <<iflag, soft_hi, pwredup, irqVars, bssVars, chain_target, command,
                 before>>

SetHi ==
  /\ \/ Go("set_hi", "publish")   /\ soft_hi' = ExitHi
     \/ Go("res_hi", "res_valid") /\ soft_hi' = old_reset[2]
  /\ UNCHANGED <<iflag, soft_lo, pwredup, irqVars, bssVars, chain_target, command,
                 before>>

Publish ==
  /\ \/ Go("publish", "serial_init") /\ pwredup' = ExitHi
     \/ Go("res_valid", "res_jmp")   /\ pwredup' = old_reset[3]
  /\ UNCHANGED <<iflag, soft_lo, soft_hi, irqVars, bssVars, chain_target, command,
                 before>>

\* the jump to DOS's warm start
WarmStart ==
  /\ Go("res_jmp", "dos")
  /\ UNCHANGED <<iflag, resetVars, irqVars, bssVars, chain_target, command, before>>

--------------------------------------------------------------------------------
(***************************************************************************)
(* serial_init and serial_isr_install.                                     *)
(***************************************************************************)
\* the status write soft-resets the ACIA
SerialInit ==
  /\ Go("serial_init", "ins_sei")
  /\ command' = "off"
  /\ UNCHANGED <<iflag, resetVars, irqVars, bssVars, chain_target, before>>

\* Deviation: the vector is replaced with interrupts as they were.
Sei_Missing ==
  /\ Go("ins_sei", IF installed THEN "ins_lo" ELSE "ins_save") \/ Go("rem_sei", "rem_test")
  /\ UNCHANGED <<iflag, resetVars, irqVars, bssVars, chain_target, command, before>>

Sei ==
  /\ Go("ins_sei", IF installed THEN "ins_lo" ELSE "ins_save") \/ Go("rem_sei", "rem_test")
  /\ iflag' = TRUE
  /\ UNCHANGED <<resetVars, irqVars, bssVars, chain_target, command, before>>

\* The predecessor is remembered unless it is this very handler.
SaveChain ==
  /\ Go("ins_save", "ins_mark")
  /\ IF Irqvec = IsrVec
     THEN old_irq' = <<0, 0>> /\ chain_valid' = FALSE /\ UNCHANGED chain_target
     ELSE old_irq' = Irqvec /\ chain_valid' = TRUE /\ chain_target' = Irqvec
  /\ UNCHANGED <<iflag, resetVars, irqVars, old_reset, installed, command, before>>

MarkInstalled ==
  /\ Go("ins_mark", "ins_lo")
  /\ installed' = TRUE
  /\ UNCHANGED <<iflag, resetVars, irqVars, old_reset, old_irq, chain_valid,
                 chain_target, command, before>>

SetIrqLo ==
  /\ \/ Go("ins_lo", "ins_hi") /\ irq_lo' = IsrLo
     \/ Go("rem_lo", "rem_hi") /\ irq_lo' = old_irq[1]
  /\ UNCHANGED <<iflag, resetVars, irq_hi, bssVars, chain_target, command, before>>

SetIrqHi ==
  /\ \/ Go("ins_hi", "ins_arm")  /\ irq_hi' = IsrHi
     \/ Go("rem_hi", "rem_mark") /\ irq_hi' = old_irq[2]
  /\ UNCHANGED <<iflag, resetVars, irq_lo, bssVars, chain_target, command, before>>

Arm ==
  /\ Go("ins_arm", "ins_cli")
  /\ command' = "on"
  /\ UNCHANGED <<iflag, resetVars, irqVars, bssVars, chain_target, before>>

Cli ==
  /\ Go("ins_cli", "run") \/ Go("rem_cli", "res_invalidate")
  /\ iflag' = FALSE
  /\ UNCHANGED <<resetVars, irqVars, bssVars, chain_target, command, before>>

--------------------------------------------------------------------------------
(***************************************************************************)
(* serial_isr_remove, the first thing _exit calls.                         *)
(***************************************************************************)
RemoveTest ==
  /\ Go("rem_test", IF installed THEN "rem_cmd" ELSE "rem_cli")
  /\ UNCHANGED <<iflag, resetVars, irqVars, bssVars, chain_target, command, before>>

\* Deviation: the vector is restored with the card still armed.
Disarm_Missing ==
  /\ Go("rem_cmd", IF chain_valid THEN "rem_lo" ELSE "rem_mark")
  /\ UNCHANGED <<iflag, resetVars, irqVars, bssVars, chain_target, command, before>>

\* Deviation: a predecessor that was never saved is restored too.
Disarm_RestoresAlways ==
  /\ Go("rem_cmd", "rem_lo")
  /\ command' = "off"
  /\ UNCHANGED <<iflag, resetVars, irqVars, bssVars, chain_target, before>>

Disarm ==
  /\ Go("rem_cmd", IF chain_valid THEN "rem_lo" ELSE "rem_mark")
  /\ command' = "off"
  /\ UNCHANGED <<iflag, resetVars, irqVars, bssVars, chain_target, before>>

MarkRemoved ==
  /\ Go("rem_mark", "rem_cli")
  /\ installed' = FALSE
  /\ UNCHANGED <<iflag, resetVars, irqVars, old_reset, old_irq, chain_valid,
                 chain_target, command, before>>

--------------------------------------------------------------------------------
(***************************************************************************)
(* Ctrl-Reset.  The 6502 masks interrupts; the reset line may or may not   *)
(* reach the card.  The Monitor follows SOFTEV if PWREDUP vouches for it   *)
(* and cold-starts the machine otherwise.  A vector of the predecessor's   *)
(* leads back to DOS.                                                      *)
(***************************************************************************)
CtrlReset ==
  /\ pc # "cold"
  /\ iflag' = TRUE
  /\ command' \in {command, "off"}
  /\ pc' = IF ~Valid THEN "cold" ELSE IF Softev = ExitVec THEN "rem_sei" ELSE "dos"
  /\ UNCHANGED <<resetVars, irqVars, bssVars, chain_target, before>>

\* A cold start boots DOS, which sets its vectors up again.
Reboot ==
  /\ Go("cold", "dos")
  /\ iflag' \in BOOLEAN /\ command' = "off"
  /\ soft_lo' \in Byte /\ soft_hi' \in Byte /\ Softev' # ExitVec /\ pwredup' = soft_hi'
  /\ before' = [softev |-> Softev', pwredup |-> pwredup', irqvec |-> Irqvec]
  /\ UNCHANGED <<irqVars, bssVars, chain_target>>

Crt0    == ZeroBss \/ SaveReset \/ Invalidate \/ SetLo \/ SetHi \/ Publish \/ WarmStart
Install == SerialInit \/ Sei \/ SaveChain \/ MarkInstalled \/ SetIrqLo \/ SetIrqHi
           \/ Arm \/ Cli
Remove  == RemoveTest \/ Disarm \/ MarkRemoved
Program == Crt0 \/ Install \/ Remove

Next == Brun \/ Program \/ CtrlReset \/ Reboot

Spec == Init /\ [][Next]_vars

--------------------------------------------------------------------------------
(***************************************************************************)
(* Properties.                                                             *)
(***************************************************************************)
Vector == Byte \X Byte

\* Every variable stays within its type.
TypeOK ==
  /\ pc \in Pc /\ iflag \in BOOLEAN
  /\ soft_lo \in Byte /\ soft_hi \in Byte /\ pwredup \in Byte
  /\ old_reset \in Byte \X Byte \X Byte
  /\ irq_lo \in Byte /\ irq_hi \in Byte /\ old_irq \in Vector
  /\ chain_valid \in BOOLEAN /\ chain_target \in Vector /\ installed \in BOOLEAN
  /\ command \in {"off", "on"}
  /\ before \in [softev : Vector, pwredup : Byte, irqvec : Vector]

\* A Ctrl-Reset before any instruction never follows a half-written vector: when
\* PWREDUP vouches for SOFTEV, the pair is wholly the predecessor's or wholly
\* _exit ("keep mixed old/new addresses invalid", crt0.s).
NoMixedReset == Valid => Softev \in {before.softev, ExitVec}

\* No interrupt is ever taken through a half-written IRQVEC.
WholeIrqVector == ~iflag => Irqvec \in {before.irqvec, IsrVec}

\* The card can interrupt only while the vector leads to the handler and the
\* program knows it has a handler to remove.
ArmedOnlyInstalled == command = "on" => Irqvec = IsrVec /\ installed

\* Whatever a Ctrl-Reset would have to undo is undone by it: as long as the card
\* is armed, the handler installed or IRQVEC other than DOS left it, the valid
\* warm-reset vector is _exit.
CleanupGuarded ==
  command = "on" \/ installed \/ Irqvec # before.irqvec => Valid /\ Softev = ExitVec

\* Back in DOS, by the return of _exit or by a reset at any moment, the machine is
\* as DOS had set it up.  (PWREDUP too, unless DOS had left it invalid.)
TeardownComplete ==
  pc = "dos" =>
    /\ Softev = before.softev /\ Irqvec = before.irqvec /\ command = "off"
    /\ before.pwredup = before.softev[2] => Valid

\* The handler passes foreign interrupts on to the predecessor, never to itself,
\* however often the program is reloaded over its own leftover vector.
NoSelfChain == chain_valid /\ installed => chain_target = before.irqvec /\ chain_target # IsrVec

================================================================================
