----------------------------- MODULE Attributes ------------------------------
(***************************************************************************)
(* The editor of the attributes of a file or a signal (attributeEditor.js).*)
(*                                                                         *)
(* The rows are kept by their index, drawn as two inputs each, and written *)
(* to a hidden input, which the form of the page sends.  An input that was *)
(* changed tells the editor when it loses the focus, before any click.     *)
(*                                                                         *)
(* A row is drawn as HTML in which its texts are put between double quotes *)
(* as they are: of a text that has one itself, only what is before it is   *)
(* shown.  What is kept and sent is the whole.                             *)
(***************************************************************************)
EXTENDS Browser

CONSTANTS
  Heads,            \* what texts are before their first double quote, "" among them
  Rests,            \* what they are from it on, "" (there is none) among them
  LastIndex         \* bound on the indices of rows

ASSUME AttributesAssumption ==
  /\ "" \in Heads /\ "" \in Rests /\ LastIndex \in Nat
  /\ \A i \in 0 .. LastIndex, c \in {"Key", "Value"} : Off # <<i, c>>

VARIABLES
  attributes,     \* the rows, by index
  drawnRows,      \* what the inputs show
  metadataInput,  \* what the form sends
  changing        \* the input that has the focus and was changed, or Off

attributesVars == <<attributes, drawnRows, metadataInput, changing>>

\* Keys and values.
AttributeTexts == [head : Heads, rest : Rests]
EmptyText == [head |-> "", rest |-> ""]

Cells == {"Key", "Value"}
Row == [Cells -> AttributeTexts]
EmptyRow == [c \in Cells |-> EmptyText]

\* What value="..." makes of a text.
ShownAs(text) == [text EXCEPT !.rest = ""]

redrawUI(rows) == [i \in DOMAIN rows |-> [c \in Cells |-> ShownAs(rows[i][c])]]

Indices == DOMAIN attributes

\* The largest index.
IsMaxIndex(i) == i \in Indices /\ \A j \in Indices : j <= i

\* (mutant of IsNewIndex)
IsNewIndexByCount(i) == i = Cardinality(Indices)
\* The index of a new row: one more than the largest, or 0.
IsNewIndex(i) == IF Indices = {} THEN i = 0 ELSE \E m \in Indices : IsMaxIndex(m) /\ i = m + 1

AddedRow(i) == [j \in Indices \cup {i} |-> IF j = i THEN EmptyRow ELSE attributes[j]]

\* No row is added below one whose key is empty.
addMetaDataRow(i) ==
  /\ changing = Off
  /\ i \in 0 .. LastIndex
  /\ \A m \in Indices : IsMaxIndex(m) => attributes[m]["Key"] # EmptyText
  /\ IsNewIndex(i)
  /\ attributes' = AddedRow(i)
  /\ drawnRows' = redrawUI(attributes')
  /\ metadataInput' = attributes'
  /\ UNCHANGED changing

removeMetaRow(i) ==
  /\ changing = Off
  /\ i \in Indices
  /\ attributes' = [j \in Indices \ {i} |-> attributes[j]]
  /\ metadataInput' = attributes'
  /\ drawnRows' = redrawUI(attributes')
  /\ UNCHANGED changing

\* One edit, however many keys it takes; a text that is as before is no change.
TypeCell(i, c, text) ==
  /\ changing = Off
  /\ i \in Indices
  /\ text # drawnRows[i][c]
  /\ drawnRows' = [drawnRows EXCEPT ![i][c] = text]
  /\ changing' = <<i, c>>
  /\ UNCHANGED <<attributes, metadataInput>>

keyChanged(i) ==
  /\ changing = <<i, "Key">>
  /\ attributes' = [attributes EXCEPT ![i]["Key"] = drawnRows[i]["Key"]]
  /\ metadataInput' = attributes'
  /\ changing' = Off
  /\ UNCHANGED drawnRows

\* (mutant of valueChanged)
valueChangedUnsent(i) ==
  /\ changing = <<i, "Value">>
  /\ attributes' = [attributes EXCEPT ![i]["Value"] = drawnRows[i]["Value"]]
  /\ changing' = Off
  /\ UNCHANGED <<drawnRows, metadataInput>>
valueChanged(i) ==
  /\ changing = <<i, "Value">>
  /\ attributes' = [attributes EXCEPT ![i]["Value"] = drawnRows[i]["Value"]]
  /\ metadataInput' = attributes'
  /\ changing' = Off
  /\ UNCHANGED drawnRows

AttributesNext ==
  \E i \in 0 .. LastIndex :
    \/ addMetaDataRow(i) \/ removeMetaRow(i) \/ keyChanged(i) \/ valueChanged(i)
    \/ \E c \in Cells, text \in AttributeTexts : TypeCell(i, c, text)

\* attributeEditor: the attributes the server had.
AttributesInit ==
  /\ \E n \in 0 .. 1 : attributes \in [0 .. n - 1 -> Row]
  /\ drawnRows = redrawUI(attributes)
  /\ metadataInput = attributes
  /\ changing = Off

------------------------------------------------------------------------------
(* What the editor promises *)

\* The form sends the rows that are shown, after any order of additions, removals
\* and changes, with the text that each input shows; or of which it shows what is
\* before a double quote, since the rows were drawn again.
SentAttributesAreShown ==
  changing = Off =>
    /\ DOMAIN drawnRows = DOMAIN metadataInput
    /\ \A i \in DOMAIN metadataInput, c \in Cells :
         drawnRows[i][c] \in {metadataInput[i][c], ShownAs(metadataInput[i][c])}

\* A row that is added takes the place of no other, also after removals.
AddedRowsAreNew ==
  [][Indices \subseteq Indices' => \A i \in Indices : changing = Off => attributes'[i] = attributes[i]]_attributesVars
==============================================================================
