--------------------------- MODULE WeensyKeyboard ---------------------------
(***************************************************************************)
(* The keyboard of weensyos (k-hardware.cc): keyboard_readc, which turns   *)
(* the bytes of the controller into characters and keeps the modifiers     *)
(* between calls, and check_keyboard, which acts on them.  The controller  *)
(* (external) sends one byte for a key pressed, one for it released, and   *)
(* an 0xE0 before either for the keys that were added later.               *)
(***************************************************************************)
EXTENDS Integers, Sequences, FiniteSets, SequencesExt

CONSTANTS MaxBytes,   \* bound: bytes in the controller's buffer
          MaxDown     \* bound: keys held together

ASSUME KeyboardAssumption == MaxBytes \in Nat \ {0, 1} /\ MaxDown \in Nat \ {0}

\* A key is [code, ext]: its byte, and whether an 0xE0 comes before.  The right control
\* key is the left one with an 0xE0; with one before, the byte of a shift key is none.
Keyboard == {[code |-> "shiftL", ext |-> FALSE], [code |-> "shiftR", ext |-> FALSE],
          [code |-> "control", ext |-> FALSE], [code |-> "control", ext |-> TRUE],
          [code |-> "shiftL", ext |-> TRUE],   \* what a controller sends around the arrows
          [code |-> "capslock", ext |-> FALSE], [code |-> "alt", ext |-> FALSE],
          [code |-> "letter", ext |-> FALSE]}

\* keymap
keymap(code, escape) ==
  CASE code \in {"shiftL", "shiftR"} /\ ~escape -> "KEY_SHIFT"
    [] code = "control"                         -> "KEY_CONTROL"
    [] code = "alt"                             -> "KEY_ALT"
    [] code = "capslock" /\ ~escape             -> "KEY_CAPSLOCK"
    [] code = "letter" /\ ~escape               -> "letter"
    [] OTHER                                    -> "none"

Holding == {"KEY_SHIFT", "KEY_CONTROL", "KEY_ALT"}

VARIABLES wire,         \* bytes that the controller has and the kernel has not read
          held,         \* the keys that are down
          modifiers,
          last_escape,
          caps,         \* was capslock pressed an odd number of times since the boot?
          power         \* does the machine run?

keyboardVars == <<wire, held, modifiers, last_escape, caps, power>>

KeyboardInit ==
  wire = <<>> /\ held = {} /\ modifiers = {} /\ last_escape = FALSE /\ caps = FALSE /\ power = TRUE

E0 == [code |-> "E0", up |-> FALSE]
Bytes(k, up) == (IF k.ext THEN <<E0>> ELSE <<>>) \o <<[code |-> k.code, up |-> up]>>

\* A key goes down, or repeats, or comes up.
Strike(k, up) ==
  /\ power
  /\ up => k \in held
  /\ ~up => Cardinality(held \cup {k}) <= MaxDown
  /\ Len(wire) + Len(Bytes(k, up)) <= MaxBytes
  /\ wire' = wire \o Bytes(k, up)
  /\ held' = IF up THEN held \ {k} ELSE held \cup {k}
  /\ UNCHANGED <<modifiers, last_escape, caps, power>>

\* Mutant of EscapeAfter: it lasts until another key is pressed.
EscapeAfter_kept(b) == b.code = "E0" \/ (b.up /\ last_escape)

\* last_escape when a byte has been read.
EscapeAfter(b) == b.code = "E0"

\* The modifiers when a byte has been read.
ModifiersAfter(b) ==
  LET ch == keymap(b.code, last_escape) IN
  IF b.code = "E0" THEN modifiers
  ELSE IF b.up THEN IF ch \in Holding THEN modifiers \ {ch} ELSE modifiers
  ELSE IF ch = "KEY_CAPSLOCK"
       THEN IF ch \in modifiers THEN modifiers \ {ch} ELSE modifiers \cup {ch}
  ELSE IF ch \in Holding THEN modifiers \cup {ch}
  ELSE modifiers

\* The character that keyboard_readc returns for a letter: with control, upper, lower.
Letter ==
  IF "KEY_CONTROL" \in modifiers THEN "control"
  ELSE IF ("KEY_SHIFT" \in modifiers) # ("KEY_CAPSLOCK" \in modifiers) THEN "upper" ELSE "lower"

\* check_keyboard: reads one byte and acts on the character.  'a', 'f' and 'e' restart
\* the kernel, with its data and its static variables as they were at first; 'q' and
\* control-C turn the machine off; every other letter is left to the caller.
check_keyboard(does) ==
  /\ power /\ wire # <<>>
  /\ LET b == Head(wire)
         typed == IF ~b.up /\ keymap(b.code, last_escape) = "letter" THEN Letter ELSE "none"
         reboots == does = "reboot" /\ typed = "lower"
     IN  /\ does = "poweroff" => typed \in {"lower", "control"}
         /\ does = "reboot" => typed = "lower"
         /\ wire' = Tail(wire)
         /\ modifiers' = IF reboots THEN {} ELSE ModifiersAfter(b)
         /\ last_escape' = IF reboots THEN FALSE ELSE EscapeAfter(b)
         /\ caps' = IF reboots THEN FALSE
                    ELSE caps # (~b.up /\ keymap(b.code, FALSE) = "KEY_CAPSLOCK")
         /\ power' = (does # "poweroff")
  /\ UNCHANGED held

KeyboardNext ==
  \/ \E k \in Keyboard, up \in BOOLEAN : Strike(k, up)
  \/ \E does \in {"reboot", "poweroff", "nothing"} : check_keyboard(does)
  \/ ~power /\ UNCHANGED keyboardVars

-----------------------------------------------------------------------------
(* Properties *)

KindOf(k) == keymap(k.code, k.ext)

\* When every byte has been read, a modifier that is on has one of its keys down, so
\* none is stuck when the keys are up, capslock is on after an odd number of presses,
\* and no half of a two-byte key is remembered: whatever keys are held together, and
\* wherever among their bytes the kernel restarts.
ModifiersFollowTheKeys ==
  wire = <<>> =>
    /\ ~last_escape
    /\ \A m \in modifiers \cap Holding : \E k \in held : KindOf(k) = m
    /\ ("KEY_CAPSLOCK" \in modifiers) = caps

=============================================================================
