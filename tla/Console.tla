------------------------------ MODULE Console ------------------------------
(***************************************************************************)
(* The console (console.C): a cursor and the text memory of the adapter,   *)
(* used by kernel code and by interrupt handlers without any lock. Kernel  *)
(* code prints one character in steps that handlers interrupt; what a      *)
(* handler prints is one step. Colours, the cursor of the hardware and the *)
(* making of numbers into text are left out.                               *)
(*                                                                         *)
(* memcpy and memsetw are one step each: an interrupt in their midst finds *)
(* another text but the same cursor.                                       *)
(***************************************************************************)
EXTENDS Caller, Integers, Sequences, SequencesExt

CONSTANTS
    ROWS, COLS,     \* 25 and 80
    TAB,            \* 8
    Printable,      \* the characters that take a place
    Char            \* what kernel code prints: printables and controls

Control == {"backspace", "tab", "return", "newline"}

ASSUME ConsoleAssumption ==
    /\ ROWS \in Nat \ {0} /\ COLS \in Nat \ {0} /\ TAB \in 1..COLS
    /\ COLS % TAB = 0
    /\ Printable \cap Control = {}
    /\ Char \subseteq Printable \cup Control

VARIABLES
    console,        \* [csr_x, csr_y, text]
    paper,          \* history: the same output on a page without an end
    torn            \* history: the characters in whose midst a handler printed

consoleVars == <<console, paper, torn>>

\* Text memory: a row before the screen, the screen, and two rows after it.
Cell == -COLS..(ROWS + 2) * COLS - 1
RowsFrom(first, n) == first * COLS..(first + n) * COLS - 1

Blank == "blank"
Elsewhere == "elsewhere"    \* what is in memory that init() does not blank

NoPaper == [row |-> 0, col |-> 0, ink |-> <<>>]

\* init, with cls: the screen is blank, the cursor at its top.
ConsoleInit ==
    /\ console = [csr_x |-> 0, csr_y |-> 0,
                  text |-> [i \in Cell |-> IF i \in RowsFrom(0, ROWS) THEN Blank ELSE Elsewhere]]
    /\ paper = NoPaper
    /\ torn = {}

TabStop(x) == ((x + TAB) \div TAB) * TAB    \* (x + 8) & ~(8 - 1)

\* Deviation: the screen scrolls a row too late.
ScrollNeeded_late(y) == y > ROWS

ScrollNeeded(y) == y >= ROWS

\* Deviation: the row the cursor is in is not moved.
Copied_short(text, temp) ==
    [i \in Cell |-> IF i \in RowsFrom(0, ROWS - temp - 1) THEN text[i + temp * COLS] ELSE text[i]]

\* The memcpy of scroll: the screen moves up by temp rows.
Copied(text, temp) ==
    [i \in Cell |-> IF i \in RowsFrom(0, ROWS - temp) THEN text[i + temp * COLS] ELSE text[i]]

\* The memsetw of scroll.
Cleared(text, temp) == [i \in Cell |-> IF i \in RowsFrom(ROWS - temp, 1) THEN Blank ELSE text[i]]

-----------------------------------------------------------------------------
(* putch and puts of a handler, whose messages are printables and newlines.*)

Contents == Printable \cup {Blank, Elsewhere}

ConsoleState == [csr_x : Int, csr_y : Int, text : [Cell -> Contents]]

Moved(c, char) ==
    IF char = "newline" THEN [csr_x |-> 0, csr_y |-> c.csr_y + 1, text |-> c.text]
    ELSE [csr_x |-> c.csr_x + 1, csr_y |-> c.csr_y,
          text |-> [c.text EXCEPT ![c.csr_y * COLS + c.csr_x] = char]]

Wrapped(c) ==
    IF c.csr_x >= COLS THEN [csr_x |-> 0, csr_y |-> c.csr_y + 1, text |-> c.text] ELSE c

Scrolled(c) ==
    LET temp == c.csr_y - ROWS + 1
    IN  IF ScrollNeeded(c.csr_y)
        THEN [csr_x |-> c.csr_x, csr_y |-> ROWS - 1, text |-> Cleared(Copied(c.text, temp), temp)]
        ELSE c

Put(c, char) == Scrolled(Wrapped(Moved(c, char)))

Added(ink, place, char) ==
    [q \in {place} \cup DOMAIN ink |-> IF q = place THEN char ELSE ink[q]]

\* The same character on the endless page: where it goes, and the end of a row.
Inked(p, char) ==
    CASE char = "newline" -> [row |-> p.row + 1, col |-> 0, ink |-> p.ink]
      [] char = "return" -> [p EXCEPT !.col = 0]
      [] char = "backspace" -> [p EXCEPT !.col = IF @ = 0 THEN 0 ELSE @ - 1]
      [] char = "tab" -> [p EXCEPT !.col = TabStop(@)]
      [] OTHER -> [row |-> p.row, col |-> p.col + 1, ink |-> Added(p.ink, <<p.row, p.col>>, char)]

Turned(p) == IF p.col >= COLS THEN [row |-> p.row + 1, col |-> 0, ink |-> p.ink] ELSE p

Typed(p, char) == Turned(Inked(p, char))

InPutch == loc.op = "putch"

puts(s) ==
    /\ console' = FoldLeft(Put, console, s)
    /\ torn' = IF InPutch /\ s # <<>> THEN torn \cup {loc.char} ELSE torn
    /\ paper' = IF torn' = {} THEN FoldLeft(Typed, paper, s) ELSE NoPaper

-----------------------------------------------------------------------------
(* putch of kernel code. loc.reg is the register that holds what was read  *)
(* last, loc.next where to go from StoreRow.                               *)

PutchLocals == [op : {"putch"}, char : Char, reg : Int, next : {"wrap", "scroll"}]

CallPutch ==
    /\ \E c \in Char : /\ Call("putch", [op |-> "putch", char |-> c, reg |-> 0, next |-> "wrap"])
                       /\ paper' = IF torn = {} THEN Typed(paper, c) ELSE NoPaper
    /\ UNCHANGED <<console, torn>>

\* A step that reads into the register, and one that writes the cursor.
Load(from, to, value) ==
    Go(from, to) /\ loc' = [loc EXCEPT !.reg = value] /\ UNCHANGED consoleVars

SetX(from, to, x) ==
    Step(from, to) /\ console' = [console EXCEPT !.csr_x = x] /\ UNCHANGED <<paper, torn>>

SetY(y) == console' = [console EXCEPT !.csr_y = y] /\ UNCHANGED <<paper, torn>>

SetText(text) == console' = [console EXCEPT !.text = text] /\ UNCHANGED <<paper, torn>>

Printing(char) == pc = "putch" /\ loc.char = char

Backspace ==
    /\ Printing("backspace")
    /\ Step("putch", IF console.csr_x # 0 THEN "load_x" ELSE "wrap")
    /\ UNCHANGED consoleVars

Tab == Printing("tab") /\ Step("putch", "load_x") /\ UNCHANGED consoleVars

CarriageReturn == Printing("return") /\ SetX("putch", "wrap", 0)

Newline == Printing("newline") /\ SetX("putch", "load_row", 0)

\* where = textmemptr + (csr_y * 80 + csr_x), then *where = _c
WhereRow ==
    /\ \E c \in Char \cap Printable : Printing(c)
    /\ Load("putch", "where", console.csr_y * COLS)

WhereColumn == pc = "where" /\ Load("where", "ink", loc.reg + console.csr_x)

Ink == Step("ink", "load_x") /\ SetText([console.text EXCEPT ![loc.reg] = loc.char])

\* csr_x--, csr_x = (csr_x + 8) & ~(8 - 1), csr_x++
LoadX == Load("load_x", "store_x", console.csr_x)

StoreX ==
    /\ pc = "store_x"
    /\ SetX("store_x", "wrap", CASE loc.char = "backspace" -> loc.reg - 1
                                 [] loc.char = "tab" -> TabStop(loc.reg)
                                 [] OTHER -> loc.reg + 1)

\* if (csr_x >= 80) { csr_x = 0; csr_y++; }
Wrap == Step("wrap", IF console.csr_x >= COLS THEN "margin" ELSE "scroll") /\ UNCHANGED consoleVars

Margin ==
    /\ Go("margin", "load_row")
    /\ loc' = [loc EXCEPT !.next = "scroll"]
    /\ console' = [console EXCEPT !.csr_x = 0]
    /\ UNCHANGED <<paper, torn>>

\* csr_y++, for a newline and for a wrap
LoadRow == Load("load_row", "store_row", console.csr_y)

StoreRow == pc = "store_row" /\ Step("store_row", loc.next) /\ SetY(loc.reg + 1)

\* scroll; move_cursor changes nothing here.
NoScroll == ~ScrollNeeded(console.csr_y) /\ Return("scroll") /\ UNCHANGED consoleVars

Scroll == ScrollNeeded(console.csr_y) /\ Step("scroll", "temp") /\ UNCHANGED consoleVars

Temp == Load("temp", "copy", console.csr_y - ROWS + 1)

Copy == Step("copy", "clear") /\ SetText(Copied(console.text, loc.reg))

Clear == Step("clear", "last_row") /\ SetText(Cleared(console.text, loc.reg))

LastRow == Return("last_row") /\ SetY(ROWS - 1)

PutchStep ==
    \/ Backspace \/ Tab \/ CarriageReturn \/ Newline \/ WhereRow \/ WhereColumn \/ Ink
    \/ LoadX \/ StoreX \/ Wrap \/ Margin \/ LoadRow \/ StoreRow
    \/ NoScroll \/ Scroll \/ Temp \/ Copy \/ Clear \/ LastRow
=============================================================================
