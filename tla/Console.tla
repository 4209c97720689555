------------------------------- MODULE Console -------------------------------
(***************************************************************************)
(* The screen of kernel/io.c and the input line of kernel_loop in          *)
(* kernel/kernel.c.  The line is kept twice, in input_buffer and on the    *)
(* screen, and every key changes both.                                     *)
(*                                                                         *)
(* The cursor may stand behind the last column: vga_putchar goes to the    *)
(* next row only when there is a character to put there.                   *)
(***************************************************************************)
EXTENDS Integers, Sequences, SequencesExt

CONSTANTS
    VGA_WIDTH, VGA_HEIGHT,  \* 80, 25
    INPUT_SIZE,             \* sizeof input_buffer (256)
    Printable,              \* characters the keyboard has
    Outputs                 \* what commands print; CLEAR for the command clear

SP == " "
NL == "newline"
BS == "backspace"
OtherKey == "other"  \* keyboard_read has no character for the scancode
CLEAR == <<"clear">>

ASSUME ConsoleAssumption ==
    /\ VGA_WIDTH \in Nat \ {0} /\ VGA_HEIGHT \in Nat \ {0} /\ INPUT_SIZE \in Nat \ {0}
    /\ INPUT_SIZE + 1 <= VGA_WIDTH * (VGA_HEIGHT - 1)  \* prompt and line fit
    /\ Printable \subseteq STRING \ {NL, BS} /\ Outputs \subseteq Seq(STRING)

Cells == (0..(VGA_HEIGHT - 1)) \X (0..(VGA_WIDTH - 1))

VARIABLES
    vga,   \* the screen: vga.buffer by row and column, vga_x and vga_y
    line   \* input_buffer up to buffer_pos

consoleVars == <<vga, line>>

-----------------------------------------------------------------------------
(* The screen. *)

vga_clear == [buffer |-> [c \in Cells |-> SP], x |-> 0, y |-> 0]

vga_scroll(v) ==
    [v EXCEPT !.buffer = [c \in Cells |-> IF c[1] < VGA_HEIGHT - 1
                                          THEN v.buffer[<<c[1] + 1, c[2]>>] ELSE SP],
              !.y = VGA_HEIGHT - 1]

ScrolledIfBelow(v) == IF v.y >= VGA_HEIGHT THEN vga_scroll(v) ELSE v

\* Mutant of Back: the cursor stays in its row.
Back_SameRow(v) ==
    LET at == IF v.x > 0 THEN [v EXCEPT !.x = @ - 1] ELSE v
    IN  [at EXCEPT !.buffer[<<at.y, at.x>>] = SP]

\* '\b': one cell back, across the left edge too, and blank it.
Back(v) ==
    LET at == IF v.x > 0 THEN [v EXCEPT !.x = @ - 1]
              ELSE IF v.y > 0 THEN [v EXCEPT !.x = VGA_WIDTH - 1, !.y = @ - 1]
              ELSE v
    IN  [at EXCEPT !.buffer[<<at.y, at.x>>] = SP]

\* Any other character: to the next row first when the row is full.
Put(v, c) ==
    LET at == ScrolledIfBelow(IF v.x >= VGA_WIDTH THEN [v EXCEPT !.x = 0, !.y = @ + 1] ELSE v)
    IN  [at EXCEPT !.buffer[<<at.y, at.x>>] = c, !.x = @ + 1]

vga_putchar(v, c) ==
    CASE c = NL -> ScrolledIfBelow([v EXCEPT !.x = 0, !.y = @ + 1])
      [] c = BS -> Back(v)
      [] OTHER  -> Put(v, c)

vga_puts(v, s) ==
    LET after[n \in 0..Len(s)] == IF n = 0 THEN v ELSE vga_putchar(after[n - 1], s[n])
    IN  after[Len(s)]

-----------------------------------------------------------------------------
(* kernel_loop. *)

Prompt == <<">", SP>>

ConsoleInit == vga = vga_puts(vga_clear, Prompt) /\ line = <<>>

\* Enter: execute_command repeats the line and prints, and the prompt follows.
Enter ==
    \E output \in Outputs :
        LET repeated == vga_puts(vga, <<NL, "'">> \o line \o <<"'", NL>>)
            printed == IF output = CLEAR THEN vga_clear ELSE vga_puts(repeated, output)
        IN  vga' = vga_puts(printed, Prompt) /\ line' = <<>>

\* Backspace at the beginning of the line does nothing.
Backspace ==
    /\ line # <<>>
    /\ line' = Front(line)
    /\ vga' = vga_puts(vga, <<BS, SP, BS>>)

\* A printable character, while the buffer has room for it and the terminator.
Type(c) ==
    /\ Len(line) < INPUT_SIZE - 1
    /\ line' = Append(line, c)
    /\ vga' = vga_putchar(vga, c)

\* What keyboard_read makes of the next scancode.
Key(c) ==
    CASE c = NL -> Enter
      [] c = BS -> Backspace
      [] c \in Printable -> Type(c)
      [] OTHER -> UNCHANGED consoleVars

ConsoleNext == \E c \in Printable \cup {NL, BS, OtherKey} : Key(c)

ConsoleSpec == ConsoleInit /\ [][ConsoleNext]_consoleVars

-----------------------------------------------------------------------------
(* Properties. *)

\* The cell at this distance from the upper left corner, along the rows.
Cell(n) == vga.buffer[<<n \div VGA_WIDTH, n % VGA_WIDTH>>]
Cursor == vga.y * VGA_WIDTH + vga.x

\* What the user sees is what Enter will execute: prompt and line stand before
\* the cursor, also across rows and after scrolling, and nothing behind it; the
\* line leaves room for its terminator.
ScreenShowsLine ==
    LET shown == Prompt \o line IN
    /\ Len(line) < INPUT_SIZE /\ Cursor >= Len(shown)
    /\ \A i \in 1..Len(shown) : Cell(Cursor - Len(shown) + i - 1) = shown[i]
    /\ \A n \in Cursor..(VGA_WIDTH * VGA_HEIGHT - 1) : Cell(n) = SP
=============================================================================
