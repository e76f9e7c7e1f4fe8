----------------------------- MODULE ColorScheme -----------------------------
(***************************************************************************)
(* The colours of a chart's signals: the library color-scheme, in the copy *)
(* that is in the repository (wwwroot/lib/color-scheme), and the settings  *)
(* that tsi.js makes before it asks for the colours.                       *)
(*                                                                         *)
(* A ColorScheme is an object of four colours that its methods change in   *)
(* place: each call of colors() turns three of them again.  The module     *)
(* takes any order of calls; tsi.js makes one.  Numbers are exact: hues    *)
(* are whole degrees, distances quarters, saturations and values of a      *)
(* variation twentieths.  A colour is its three components, not their      *)
(* hexadecimal digits.  from_hex and what only it needs are left out: it   *)
(* sets a hue and a variation computed from a colour, and nothing calls it.*)
(***************************************************************************)
EXTENDS Browser

CONSTANTS
  Hues,         \* the degrees from_hue is given; tsi.js gives no negative one
  Schemes,      \* the names scheme is given
  Variations,   \* the names variation is given
  Quarters      \* the distances, in quarters

SCHEMES == {"mono", "contrast", "triade", "tetrade", "analogic"}

\* Saturation and value of the four variants of a colour, in twentieths; a
\* negative number is a share of what the hue has.
PRESETS ==
  [default |-> <<-20, -20,  20, -14,   5, 20,  10, 20>>,
   pastel  |-> << 10, -18,  10,  10,   2, 18,  15, 15>>,
   soft    |-> <<  6, -16,   6,  10,   2, 18,  10, 15>>,
   light   |-> <<  5,  20,  10,  15,   2, 20,  10, 20>>,
   hard    |-> << 20, -20,  20, -12,   2, 20,  12, 20>>,
   pale    |-> <<  2, -17,   2,  10,   2, 20,   2, 15>>]

\* A ColorScheme: the hues of its colours and its settings.
SchemeStates == [col : [1 .. 4 -> Nat], scheme : SCHEMES, distance : 0 .. 4,
                 webSafe : BOOLEAN, complement : BOOLEAN, variant : DOMAIN PRESETS]

ASSUME ColorSchemeAssumption ==
  /\ Hues \subseteq Nat
  /\ Schemes \subseteq SCHEMES
  /\ Variations \subseteq DOMAIN PRESETS
  /\ Quarters \subseteq 0 .. 4
  /\ Off \notin SchemeStates

\* Red, green, blue and value, every 15 degrees.
COLOR_WHEEL == <<
  <<255,   0,   0, 100>>, <<255,  51,   0, 100>>, <<255, 102,   0, 100>>, <<255, 128,   0, 100>>,
  <<255, 153,   0, 100>>, <<255, 178,   0, 100>>, <<255, 204,   0, 100>>, <<255, 229,   0, 100>>,
  <<255, 255,   0, 100>>, <<204, 255,   0, 100>>, <<153, 255,   0, 100>>, << 51, 255,   0, 100>>,
  <<  0, 204,   0,  80>>, <<  0, 178, 102,  70>>, <<  0, 153, 153,  60>>, <<  0, 102, 178,  70>>,
  <<  0,  51, 204,  80>>, << 25,  25, 178,  70>>, << 51,   0, 153,  60>>, << 64,   0, 153,  60>>,
  <<102,   0, 153,  60>>, <<153,   0, 153,  60>>, <<204,   0, 153,  80>>, <<229,   0, 102,  90>> >>

VARIABLES
  scheme,    \* the object, one of SchemeStates; or Off
  colours    \* what colors() gave, while no setting has changed since; or Off

schemeVars == <<scheme, colours>>

------------------------------------------------------------------------------
(* One colour *)

\* The nearest whole number, a half upwards, of n / d.
Round(n, d) == (2 * n + d) \div (2 * d)

\* set_hue: what lies between the two colours of the wheel that are next to the hue.
base(hue) ==
  LET d == hue % 15
      from == COLOR_WHEEL[((hue - d) % 360) \div 15 + 1]
      to == COLOR_WHEEL[((hue - d + 15) % 360) \div 15 + 1]
  IN  [i \in 1 .. 4 |-> from[i] + Round((to[i] - from[i]) * d, 15)]

\* rotate, by quarters of a degree, and the hue that set_hue makes of it.
rotate(hue, quarters) == Round((4 * hue + quarters) % 1440, 4)

\* get_saturation, in twentieths: the saturation of every hue is 1.
get_saturation(preset, variant) ==
  LET x == preset[2 * variant - 1] IN IF x < 0 THEN -x ELSE x

\* get_value, in parts of 2000: the value of a hue is in hundredths.
get_value(preset, variant, value) ==
  LET x == preset[2 * variant] IN IF x < 0 THEN -x * value ELSE 100 * x

\* get_hex: each component is drawn towards the greatest as the saturation falls.
get_hex(hue, preset, variant, webSafe) ==
  LET b == base(hue)
      most == CHOOSE x \in {b[1], b[2], b[3]} : \A i \in 1 .. 3 : b[i] <= x
      s == get_saturation(preset, variant)
      v == get_value(preset, variant, b[4])
      rgb == [i \in 1 .. 3 |-> Round(51 * v * (20 * most - (most - b[i]) * s), 8000 * most)]
      capped == [i \in 1 .. 3 |-> IF rgb[i] > 255 THEN 255 ELSE rgb[i]]
  IN  IF webSafe THEN [i \in 1 .. 3 |-> 51 * Round(capped[i], 51)] ELSE capped

------------------------------------------------------------------------------
(* The object *)

NewColorScheme ==
  [col |-> <<60, 60, 60, 60>>, scheme |-> "mono", distance |-> 2, webSafe |-> FALSE,
   complement |-> FALSE, variant |-> "default"]

\* (mutant of turns)
turnsPlain(s) ==
  CASE s.scheme = "mono"     -> <<>>
    [] s.scheme = "contrast" -> <<720>>
    [] s.scheme = "triade"   -> <<720, 720>>
    [] s.scheme = "tetrade"  -> <<720, 720, 0>>
    [] s.scheme = "analogic" -> <<0, 0, 720>>
\* By how much colors() turns the second to the fourth colour away from the
\* first, in quarters of a degree; a colour it does not turn stays as it was.
turns(s) ==
  LET d == s.distance
  IN  CASE s.scheme = "mono"     -> <<>>
        [] s.scheme = "contrast" -> <<720>>
        [] s.scheme = "triade"   -> <<720 - 60 * d, 720 + 60 * d>>
        [] s.scheme = "tetrade"  -> <<720, 720 + 90 * d, 90 * d>>
        [] s.scheme = "analogic" -> <<60 * d, 1440 - 60 * d, 720>>

used_colors(s) ==
  CASE s.scheme = "mono"     -> 1
    [] s.scheme = "contrast" -> 2
    [] s.scheme = "triade"   -> 3
    [] s.scheme = "tetrade"  -> 4
    [] s.scheme = "analogic" -> IF s.complement THEN 4 ELSE 3

\* (mutant of turned)
turnedAgain(s) ==
  [s EXCEPT !.col = [i \in 1 .. 4 |-> IF i - 1 \in DOMAIN turns(s)
                                      THEN rotate(s.col[i], turns(s)[i - 1]) ELSE s.col[i]]]
\* The object after colors(): each colour it turns is given the first's hue before.
turned(s) ==
  [s EXCEPT !.col = [i \in 1 .. 4 |-> IF i - 1 \in DOMAIN turns(s)
                                      THEN rotate(s.col[1], turns(s)[i - 1]) ELSE s.col[i]]]

\* What colors() returns: four variants of each colour that is used.
hexes(s) ==
  [n \in 1 .. 4 * used_colors(s) |->
     get_hex(s.col[(n - 1) \div 4 + 1], PRESETS[s.variant], ((n - 1) % 4) + 1, s.webSafe)]

colors ==
  /\ scheme # Off
  /\ scheme' = turned(scheme)
  /\ colours' = hexes(turned(scheme))

\* A method that makes a setting; what colors() gave before is of other settings.
set(s) == scheme # Off /\ scheme' = s /\ colours' = Off

from_hue(h) == set([scheme EXCEPT !.col[1] = h % 360])
add_complement(b) == set([scheme EXCEPT !.complement = b])
web_safe(b) == set([scheme EXCEPT !.webSafe = b])
distance(d) == set([scheme EXCEPT !.distance = d])
setScheme(name) == set([scheme EXCEPT !.scheme = name])
variation(name) == set([scheme EXCEPT !.variant = name])

\* getLineChartExpressions, of tsi.js, up to its call of colors().
chartScheme(signals) ==
  [NewColorScheme EXCEPT !.col[1] = IF signals > 10 THEN signals ELSE 10,
                         !.scheme = "tetrade", !.variant = "pastel"]

NewScheme ==
  /\ scheme = Off
  /\ scheme' \in {NewColorScheme} \cup {chartScheme(n) : n \in {1, 11, 16}}
  /\ UNCHANGED colours

SchemeNext ==
  \/ NewScheme \/ colors
  \/ \E h \in Hues : from_hue(h)
  \/ \E b \in BOOLEAN : add_complement(b) \/ web_safe(b)
  \/ \E d \in Quarters : distance(d)
  \/ \E name \in Schemes : setScheme(name)
  \/ \E name \in Variations : variation(name)

SchemeInit == scheme = Off /\ colours = Off

------------------------------------------------------------------------------
(* What the colours promise *)

\* A new object with the settings of s.
fresh(s) == [s EXCEPT !.col = <<s.col[1], 60, 60, 60>>]

\* What colors() gives is a matter of the settings, not of the calls before,
\* though every call turns the colours it is made from.
ColoursAreOfTheSettings == colours # Off => colours = hexes(turned(fresh(scheme)))

IsColour(c) == \A i \in 1 .. 3 : c[i] \in 0 .. 255

\* Every component is a byte, a multiple of 51 when the colours are to be safe.
ColoursAreBytes ==
  colours # Off => \A n \in DOMAIN colours :
                     /\ IsColour(colours[n])
                     /\ scheme.webSafe => \A i \in 1 .. 3 : colours[n][i] % 51 = 0

\* No two of the sixteen colours a chart takes its colours from are the same.
SeriesDiffer ==
  colours # Off /\ (\E n \in 1 .. 16 : fresh(scheme) = chartScheme(n)) =>
    \A i, j \in DOMAIN colours : i # j => colours[i] # colours[j]

ColoursAreAsSet == ColoursAreOfTheSettings /\ ColoursAreBytes /\ SeriesDiffer
==============================================================================
