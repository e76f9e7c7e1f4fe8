------------------------------ MODULE WordCloud ------------------------------
(***************************************************************************)
(* The library wordcloud2 in the copy that is in the repository            *)
(* (wwwroot/lib/wordcloud): clouds of words drawn on one canvas, a word at *)
(* each tick of a timer.  Every call of WordCloud() is a closure with a    *)
(* timer and a grid of its own; a new one tells the one before to stop by  *)
(* an event.                                                               *)
(*                                                                         *)
(* A word of size n takes n cells in a row, or in a column when it is      *)
(* turned; of the places where it fits, any may be found first.  Colours,  *)
(* fonts and shapes are left out; times and luck are choices.  No listener *)
(* of its events calls WordCloud() or cancels an event; that a word took   *)
(* too long has the effect of a cancelled wordclouddrawn.                  *)
(***************************************************************************)
EXTENDS Browser

CONSTANTS
  Width, Height,   \* ngx and ngy: the grid
  Words,           \* the words
  MaxSize,         \* the greatest size of a word
  MaxClouds        \* bound on the clouds started

ASSUME WordCloudAssumption ==
  {Width, Height, MaxSize, MaxClouds} \subseteq Nat \ {0}

VARIABLES
  loops,      \* the closures whose timer is set and that listen for wordcloudstart
  picture,    \* what each cell of the canvas shows
  written,    \* the words of the cloud that was started last, with their cells
  info,       \* per cell, the word that hover and click tell; or Off
  told,       \* what hover told last, and of which cloud
  clouds      \* the clouds started

cloudVars == <<loops, picture, written, info, told, clouds>>

\* A list of words and their sizes, and the options, that WordCloud() is called with.
Entries == [word : Words, size : 0 .. MaxSize]
Options == [rotates : BOOLEAN, outOfBound : BOOLEAN, shrink : BOOLEAN, timed : BOOLEAN,
            hover : BOOLEAN]

\* What the options are when none is given.
settings ==
  [rotates |-> TRUE, outOfBound |-> FALSE, shrink |-> FALSE, timed |-> FALSE, hover |-> FALSE]

Grid == (0 .. Width - 1) \X (0 .. Height - 1)
Blank == ""
Masked == "masked"

------------------------------------------------------------------------------
(* One word *)

\* getRotateDeg: turned or not, if the options let it.
getRotateDeg(options) == IF options.rotates THEN BOOLEAN ELSE {FALSE}

\* getTextInfo: the cells a word takes, from the first.
occupied(size, turned) ==
  {IF turned THEN <<0, n>> ELSE <<n, 0>> : n \in 0 .. size - 1}

At(cells, place) == {<<c[1] + place[1], c[2] + place[2]>> : c \in cells}

\* getPointsAtRadius: from the centre to beyond the corners.
Places == (-Width .. Width) \X (-Height .. Height)

\* (mutant of canFitText)
canFitTextInBounds(loop, cells) == loop.options.outOfBound \/ cells \subseteq Grid
canFitText(loop, cells) ==
  /\ cells \cap Grid \subseteq loop.free
  /\ loop.options.outOfBound \/ cells \subseteq Grid

\* Whether the box of a word is larger than the canvas.
TooLarge(size, turned) == IF turned THEN size > Height ELSE size > Width

\* What putWord may do with a word of some size: no cells, if it is not drawn.
Fits(loop, size, turned) ==
  {cells \in {At(occupied(size, turned), place) : place \in Places} : canFitText(loop, cells)}

\* shrinkToFit makes the word three quarters of its size, and puts it again.
putWord(loop, size) ==
  LET put[n \in 0 .. MaxSize] ==
        UNION {IF n = 0 \/ (~loop.options.outOfBound /\ TooLarge(n, turned)) THEN {{}}
               ELSE IF Fits(loop, n, turned) # {} THEN Fits(loop, n, turned)
               ELSE IF loop.options.shrink THEN put[(3 * n) \div 4]
               ELSE {{}} : turned \in getRotateDeg(loop.options)}
  IN  put[size]

------------------------------------------------------------------------------
(* The loop *)

\* What a word leaves on the canvas.
drawText(word, cells) ==
  /\ picture' = [c \in Grid |-> IF c \in cells THEN word ELSE picture[c]]
  /\ written' = written \cup {[word |-> word, cells |-> cells \cap Grid]}

\* updateGrid, and fillGridAt, for what hover tells; the cells taken are in loop.
updateGrid(word, cells) ==
  info' = IF info = Off THEN Off ELSE [c \in Grid |-> IF c \in cells THEN word ELSE info[c]]

\* (mutant of anotherWordCloudStart)
anotherWordCloudStartUnheard(closure) == loops' = loops \cup {closure}
\* The closure listens for the start of another, which clears its timer.
anotherWordCloudStart(closure) == loops' = {closure}

\* With hover, the words are kept by cell, none at first.
emptyInfo(options) == IF options.hover THEN [c \in Grid |-> Off] ELSE Off

\* The loops before stop; the grid is that of an empty canvas, or of what the
\* canvas shows.
start(options, list, showing) ==
  /\ clouds < MaxClouds
  /\ clouds' = clouds + 1
  /\ picture' = showing
  /\ anotherWordCloudStart([cloud |-> clouds + 1, options |-> options, list |-> list,
                            free |-> {c \in Grid : showing[c] = Blank}])
  /\ written' = {}
  /\ info' = emptyInfo(options)
  /\ UNCHANGED told

\* The tick after the last word: wordcloudstop.
Stop(loop) ==
  /\ loop.list = <<>>
  /\ loops' = loops \ {loop}
  /\ UNCHANGED <<picture, written, info, told, clouds>>

\* (mutant of loop)
loopAgain(loop, cells) == [loop EXCEPT !.list = Tail(@)]
\* The closure at its next tick.
loop(closure, cells) == [closure EXCEPT !.list = Tail(@), !.free = @ \ cells]

\* A tick: a word is put, if there is time, and wordclouddrawn sent; the loop is
\* aborted when the time was exceeded or the event is cancelled.
Tick(closure, aborts) ==
  /\ closure.list # <<>>
  /\ \E cells \in putWord(closure, Head(closure.list).size)
                  \cup (IF aborts /\ closure.options.timed THEN {{}} ELSE {}) :
       /\ IF cells = {} THEN UNCHANGED <<picture, written, info>>
          ELSE /\ drawText(Head(closure.list).word, cells)
               /\ updateGrid(Head(closure.list).word, cells)
       /\ loops' = (loops \ {closure}) \cup IF aborts THEN {} ELSE {loop(closure, cells)}
  /\ UNCHANGED <<told, clouds>>

Stops(closure) == Stop(closure) \/ (closure.options.timed /\ Tick(closure, TRUE))
Goes(closure) == Tick(closure, FALSE)

\* What hover told last, of this cloud.
hovered == IF told # Off /\ told.cloud = clouds THEN told ELSE Off

\* What is under the pointer is told when it has changed; the listener stays when
\* the loop has stopped.
wordcloudhover(cell) ==
  /\ info # Off
  /\ LET now == IF info[cell] = Off THEN Off
                ELSE [cloud |-> clouds, cell |-> cell, word |-> info[cell]]
     IN  now # hovered /\ told' = now
  /\ UNCHANGED <<loops, picture, written, info, clouds>>

CloudInit ==
  /\ loops = {} /\ written = {}
  /\ picture = [c \in Grid |-> Blank]
  /\ info = Off /\ told = Off
  /\ clouds = 0

------------------------------------------------------------------------------
(* What a cloud promises *)

\* No word is drawn over another, nor over what the canvas showed: all of a
\* word that is drawn stays to be read.
WordsStayWhole == \A d \in written : \A c \in d.cells : picture[c] = d.word

\* One loop draws on the canvas, and it is the last cloud's.
OneLoop == \A l \in loops : l.cloud = clouds

\* What hover tells of the cloud that is shown is the word under the pointer.
ToldIsShown == told # Off /\ told.cloud = clouds => picture[told.cell] = told.word

CloudIsTrue == WordsStayWhole /\ OneLoop /\ ToldIsShown
==============================================================================
