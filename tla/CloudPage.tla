------------------------------ MODULE CloudPage ------------------------------
(***************************************************************************)
(* The page that shows what wordcloud2 does (wwwroot/lib/wordcloud,        *)
(* index.html and index.js; no page of the application leads to it): a     *)
(* form of words, options and a mask, examples that fill it, named by the  *)
(* hash of the address, and a cloud for each run of it.  The second,       *)
(* hidden element the words are put into shows what the canvas shows.      *)
(***************************************************************************)
EXTENDS WordCloud

CONSTANTS
  Examples,       \* examples, by name: the words and the options of each
  FirstExample,   \* the one shown first
  OwnOptions,     \* options the user may type
  Files,          \* images the user may choose for a mask
  MaskArea,       \* the cells an image lets words be put into
  MaxChanges      \* bound on the changes of the hash that are under way

\* The hash of an address without one.
NoName == ""

ASSUME CloudPageAssumption ==
  /\ Examples \in [DOMAIN Examples -> [list : Seq(Entries), options : Options]]
  /\ FirstExample \in DOMAIN Examples
  /\ NoName \notin DOMAIN Examples
  /\ OwnOptions \subseteq Options
  /\ MaskArea \subseteq Grid
  /\ MaxChanges \in Nat \ {0}

VARIABLES
  hash,       \* the hash of the address
  changes,    \* the events that it changed, under way
  cloudForm,  \* the words and the options in the form; Off before the page is ready
  mask,       \* maskCanvas: the file it is made from, or Off
  images,     \* the files that are being read
  shown,      \* what the form was at the last run
  loading     \* whether the page says that it is

maskVars == <<mask, images>>
pageVars == <<hash, changes, cloudForm, maskVars, shown, loading, cloudVars>>

EmptyForm == [list |-> <<>>, options |-> settings]

\* What the canvas shows before a run draws: its size is set anew, which
\* empties it, and what a mask forbids is painted.
Showing == [c \in Grid |-> IF mask = Off \/ c \in MaskArea THEN Blank ELSE Masked]

run(filled) ==
  /\ start(filled.options, filled.list, Showing)
  /\ cloudForm' = filled /\ shown' = filled
  /\ loading' = TRUE

\* No name runs the form as it is; an example fills it and is run.
loadExampleData(name) == run(IF name = NoName THEN cloudForm ELSE Examples[name])

\* The address has changed; one that names no example is reset.
hashChanged ==
  /\ changes > 0
  /\ \/ /\ hash \in DOMAIN Examples \cup {NoName}
        /\ loadExampleData(hash)
        /\ changes' = changes - 1
        /\ UNCHANGED hash
     \/ /\ hash \notin DOMAIN Examples \cup {NoName}
        /\ hash' = NoName
        /\ UNCHANGED <<changes, cloudForm, shown, loading, cloudVars>>
  /\ UNCHANGED maskVars

\* Another address, of which an event tells.
NewHash(name) ==
  /\ changes < MaxChanges
  /\ hash # name
  /\ hash' = name
  /\ changes' = changes + 1

\* The page is ready.
OpenPage(name) ==
  /\ cloudForm = Off
  /\ IF name \in DOMAIN Examples
     THEN hash' = name /\ loadExampleData(name) /\ UNCHANGED changes
     ELSE hash' = FirstExample /\ changes' = 1 /\ cloudForm' = EmptyForm
          /\ UNCHANGED <<shown, loading, cloudVars>>
  /\ UNCHANGED maskVars

\* (mutant of changeHash)
changeHashDirectly(name) ==
  /\ cloudForm # Off
  /\ loadExampleData(name)
  /\ UNCHANGED <<hash, changes, maskVars>>
\* Submitting the form asks for no name, choosing an example for its own.
changeHash(name) ==
  /\ cloudForm # Off
  /\ \/ hash = name /\ loadExampleData(name) /\ UNCHANGED <<hash, changes>>
     \/ NewHash(name) /\ UNCHANGED <<cloudForm, shown, loading, cloudVars>>
  /\ UNCHANGED maskVars

\* The user goes to an address, with a name or not.
GoTo(name) ==
  /\ cloudForm # Off
  /\ NewHash(name)
  /\ UNCHANGED <<cloudForm, shown, loading, maskVars, cloudVars>>

TypeOptions(options) ==
  /\ cloudForm # Off
  /\ cloudForm.options # options
  /\ cloudForm' = [cloudForm EXCEPT !.options = options]
  /\ UNCHANGED <<hash, changes, shown, loading, maskVars, cloudVars>>

\* A file is chosen, and an image made of it; or the mask is cleared, which
\* does not stop an image under way.
ChooseMask(file) ==
  /\ cloudForm # Off
  /\ file # mask
  /\ Len(images) < MaxRequests
  /\ mask' = Off
  /\ images' = IF file = Off THEN images ELSE Append(images, file)
  /\ UNCHANGED <<hash, changes, cloudForm, shown, loading, cloudVars>>

readPixels(i) ==
  /\ mask' = images[i]
  /\ images' = Without(images, i)
  /\ UNCHANGED <<hash, changes, cloudForm, shown, loading, cloudVars>>

\* (mutant of wordcloudstopped)
wordcloudstoppedUnaborted == loading' = (loading /\ \E l \in loops : l.options.timed)
\* The listener of wordcloudstop.
wordcloudstopped == loading' = FALSE

Ticks ==
  /\ \E closure \in loops : \/ Stops(closure) /\ wordcloudstopped
                            \/ Goes(closure) /\ UNCHANGED loading
  /\ UNCHANGED <<hash, changes, cloudForm, shown, maskVars>>

\* The box is drawn around the word that hover tells, or hidden.
drawBox(cell) ==
  /\ wordcloudhover(cell)
  /\ UNCHANGED <<hash, changes, cloudForm, shown, loading, maskVars>>

PageUser ==
  \/ \E name \in DOMAIN Examples \cup {NoName, "unknown"} : OpenPage(name) \/ GoTo(name)
  \/ \E name \in DOMAIN Examples \cup {NoName} : changeHash(name)
  \/ \E options \in OwnOptions : TypeOptions(options)
  \/ \E file \in Files \cup {Off} : ChooseMask(file)
  \/ \E cell \in Grid : drawBox(cell)

PageEvents == hashChanged \/ \E i \in DOMAIN images : readPixels(i)

CloudPageNext == PageUser \/ PageEvents \/ Ticks

CloudPageInit ==
  /\ hash = NoName /\ changes = 0
  /\ cloudForm = Off /\ shown = Off /\ loading = FALSE
  /\ mask = Off /\ images = <<>>
  /\ CloudInit

------------------------------------------------------------------------------
(* What the page promises *)

\* An address that names an example is of the cloud that is drawn.
HashNamesTheCloud ==
  changes = 0 /\ hash \in DOMAIN Examples => shown = Examples[hash]

CloudPageIsTrue == CloudIsTrue /\ HashNamesTheCloud
==============================================================================
