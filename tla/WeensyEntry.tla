----------------------------- MODULE WeensyEntry -----------------------------
(***************************************************************************)
(* How a process of weensyos enters the kernel and comes back: the entry   *)
(* and return paths of k-exception.S, the struct regstate of x86-64.h that *)
(* exception() and syscall() see, and the registers that the system calls  *)
(* of u-lib.hh say they change.                                            *)
(*                                                                         *)
(* The value of a register is the number of its place in regstate, except  *)
(* for the segments that init_process sets.  A stack is the sequence of    *)
(* its words from the top address down.                                    *)
(***************************************************************************)
EXTENDS Integers, Sequences, SequencesExt

AppCode == 24 + 3   \* SEGSEL_APP_CODE | 3
AppData == 32 + 3
Unknown == -99      \* what the kernel has left in a register or in a word
Result == 77        \* what the system call returns
ErrorCode == 55

\* The fields of regstate, from the lowest address up.
regstate ==
  <<"rax", "rcx", "rdx", "rbx", "rbp", "rsi", "rdi", "r8", "r9", "r10", "r11", "r12", "r13", "r14", "r15",
    "fs", "gs", "intno", "errcode", "rip", "cs", "rflags", "rsp", "ss">>
Registers == ToSet(regstate) \ {"intno", "errcode"}
Place(r) == CHOOSE i \in DOMAIN regstate : regstate[i] = r

\* init_process, and then the process has run.
init_process ==
  [r \in Registers |-> CASE r = "cs" -> AppCode [] r \in {"fs", "gs", "ss"} -> AppData [] OTHER -> Place(r)]

Words0(regs, names) == [i \in DOMAIN names |-> IF names[i] \in DOMAIN regs THEN regs[names[i]] ELSE Unknown]

\* The words on the stack as a regstate.
Seen(stack) == [r \in ToSet(regstate) |-> Reverse(stack)[Place(r)]]

-----------------------------------------------------------------------------
(* Exceptions *)

\* What the processor pushes: for some exceptions an error code too.
WithCode == {8, 10, 11, 12, 13, 14, 17}
Interrupt(regs, num) ==
  Words0(regs, <<"ss", "rsp", "rflags", "cs", "rip">>) \o IF num \in WithCode THEN <<ErrorCode>> ELSE <<>>

\* The handler of an exception: a zero in the place of the error code, and the number.
exception_handler(num) ==
  (IF num # 8 /\ (num < 10 \/ num > 14) /\ num # 17 THEN <<0>> ELSE <<>>) \o <<num>>

exception_entry(regs, num) ==
  Interrupt(regs, num) \o exception_handler(num)
  \o Words0(regs, <<"gs", "fs", "r15", "r14", "r13", "r12", "r11", "r10", "r9", "r8",
                    "rdi", "rsi", "rbp", "rbx", "rdx", "rcx", "rax">>)

\* The registers from a regstate: pops, two words skipped, and what iretq pops.
exception_return(seen) ==
  LET memory == [i \in DOMAIN regstate |-> seen[regstate[i]]]
      pops == <<"rax", "rcx", "rdx", "rbx", "rbp", "rsi", "rdi", "r8", "r9", "r10", "r11", "r12", "r13",
                "r14", "r15", "fs", "gs">>
      iretq == <<"rip", "cs", "rflags", "rsp", "ss">>
  IN  [r \in Registers |->
         IF r \in ToSet(pops) THEN memory[CHOOSE i \in DOMAIN pops : pops[i] = r]
         ELSE memory[Len(pops) + 2 + CHOOSE i \in DOMAIN iretq : iretq[i] = r]]

-----------------------------------------------------------------------------
(* System calls *)

\* The syscall instruction, then syscall_entry: the words it skips keep what was there,
\* and the stack pointer goes to the word that is two below the top.
syscall_entry(regs) ==
  LET after == [r \in Registers |-> CASE r = "rcx" -> regs["rip"] [] r = "r11" -> regs["rflags"] [] OTHER -> regs[r]]
      pushed == <<AppData, Unknown>> \o Words0(after, <<"r11">>) \o <<AppCode>> \o Words0(after, <<"rcx">>)
                \o <<Unknown, -1>>
                \o Words0(after, <<"gs", "fs", "r15", "r14", "r13", "r12", "skip", "r10", "r9", "r8", "rdi",
                                   "rsi", "rbp", "rbx", "rdx", "skip", "rax">>)
  IN  [pushed EXCEPT ![2] = after["rsp"]]

\* What syscall(), compiled by the rules of the platform, gives back as it found it.
CalleeSaved == {"rbx", "rbp", "r12", "r13", "r14", "r15", "fs", "gs"}

\* syscall() returns to syscall_entry, which skips 19 words and returns with iretq.
syscall_return(regs, stack) ==
  LET iretq == <<"ss", "rsp", "rflags", "cs", "rip">>
      rest == SubSeq(stack, 1, Len(stack) - 19)
  IN  [r \in Registers |->
         CASE r = "rax" -> Result
           [] r \in CalleeSaved -> regs[r]
           [] r \in ToSet(iretq) -> rest[CHOOSE i \in DOMAIN iretq : iretq[i] = r]
           [] OTHER -> Unknown]

\* syscall() ends in schedule(), or fork has copied the registers for the child: the
\* process runs again through exception_return.
Rescheduled(stack) == exception_return([Seen(stack) EXCEPT !["rax"] = Result])

\* make_syscall with so many arguments: the registers that it says may change.
ArgumentsIn == <<"rdi", "rsi", "rdx", "r10">>
make_syscall(args) ==
  {"rax"} \cup {ArgumentsIn[i] : i \in 1 .. args}
  \cup CASE args = 0 -> {"rcx", "rdx", "rsi", "rdi", "r8", "r9", "r10", "r11"}
         [] args = 1 -> {"rcx", "rdx", "rsi", "r8", "r9", "r10", "r11"}
         [] args = 2 -> {"rcx", "rdx", "r8", "r9", "r10", "r11"}
         [] args = 3 -> {"rcx", "r8", "r9", "r10", "r11"}
         [] OTHER    -> {"rcx", "r8", "r9", "r11"}

=============================================================================
