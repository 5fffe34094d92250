-------------------------------- MODULE Sgr --------------------------------
(***************************************************************************)
(* The SGR pen: reading renditions (grid.rs apply_sgr, grid/parse.rs) and  *)
(* writing them (grid/serialize.rs write_attrs_diff).                      *)
(*                                                                         *)
(* Attrs is the set of <<field, value>> of the fields that differ from     *)
(* their default, so {} is Attrs::default() and a flag that is on is       *)
(* <<"bold", <<>>>>.  SGR parameters are a sequence of parameters, each a  *)
(* sequence of one number and its colon-separated subparameters.           *)
(***************************************************************************)
EXTENDS Integers, Sequences

Without(attrs, fields) == {x \in attrs : x[1] \notin fields}
With(attrs, field, value) == Without(attrs, {field}) \cup {<<field, value>>}
Has(attrs, field) == \E x \in attrs : x[1] = field

(* The field's value, <<>> for the default of a colour or a style.           *)
Value(attrs, field) ==
  IF Has(attrs, field) THEN (CHOOSE x \in attrs : x[1] = field)[2] ELSE <<>>

Idx(n)       == <<"Idx", n>>
Rgb(r, g, b) == <<"Rgb", r, g, b>>
U8(n)        == IF n > 255 THEN 255 ELSE n
First(param) == IF param = <<>> THEN 0 ELSE param[1]

-----------------------------------------------------------------------------
(* Reading.                                                                  *)

(* The codes that turn a flag on, and those that return fields to default.   *)
Sets ==
  [code \in {1, 2, 3, 5, 6, 7, 8, 9, 53} |->
     CASE code = 1 -> "bold"       [] code = 2 -> "dim"         [] code = 3 -> "italic"
       [] code = 5 -> "slow_blink" [] code = 6 -> "rapid_blink" [] code = 7 -> "inverse"
       [] code = 8 -> "conceal"    [] code = 9 -> "strikethrough" [] code = 53 -> "overline"]

Clears ==
  [code \in {22, 23, 24, 25, 27, 28, 29, 39, 49, 55, 59} |->
     CASE code = 22 -> {"bold", "dim"}      [] code = 23 -> {"italic"}
       [] code = 24 -> {"underline_style"}  [] code = 25 -> {"slow_blink", "rapid_blink"}
       [] code = 27 -> {"inverse"}          [] code = 28 -> {"conceal"}
       [] code = 29 -> {"strikethrough"}    [] code = 39 -> {"foreground"}
       [] code = 49 -> {"background"}       [] code = 55 -> {"overline"}
       [] code = 59 -> {"underline_color"}]

Extended ==
  [code \in {38, 48, 58} |->
     CASE code = 38 -> "foreground" [] code = 48 -> "background" [] code = 58 -> "underline_color"]

(* underline_style_from_sgr: 1 and every unknown style is a single underline.*)
underline_style_from_sgr(attrs, style) ==
  IF style = 0 THEN Without(attrs, {"underline_style"})
  ELSE With(attrs, "underline_style", IF style \in 2..5 THEN <<style>> ELSE <<1>>)

(* The colour of a colon form, <<>> when it is none: an RGB with a fifth     *)
(* value has a colour space in front, which must be 0.                       *)
parse_sgr_color_values(v) ==
  LET start == IF Len(v) >= 5 /\ v[2] = 0 THEN 3 ELSE 2 IN
  IF v[1] = 5 /\ Len(v) >= 2 THEN Idx(U8(v[2]))
  ELSE IF v[1] = 2 /\ Len(v) >= start + 2
       THEN Rgb(U8(v[start]), U8(v[start+1]), U8(v[start+2]))
  ELSE <<>>

(* The colour at parameter i and how many parameters it takes after it.      *)
parse_sgr_color(params, i) ==
  LET p(k) == First(params[i+k]) IN
  IF Len(params[i]) > 1
  THEN [color |-> parse_sgr_color_values(Tail(params[i])), skip |-> 0]
  ELSE IF i + 2 <= Len(params) /\ p(1) = 5
       THEN [color |-> Idx(U8(p(2))), skip |-> 2]
  ELSE IF i + 4 <= Len(params) /\ p(1) = 2
       THEN [color |-> Rgb(U8(p(2)), U8(p(3)), U8(p(4))), skip |-> 4]
  ELSE [color |-> <<>>, skip |-> 0]

(* One code of the loop of apply_sgr.                                        *)
apply_code(attrs, params, i) ==
  LET code == First(params[i]) IN
  IF code = 0 THEN {}
  ELSE IF code \in DOMAIN Sets THEN With(attrs, Sets[code], <<>>)
  ELSE IF code = 4 THEN underline_style_from_sgr(attrs,
                          IF Len(params[i]) > 1 THEN params[i][2] ELSE 1)
  ELSE IF code = 21 THEN With(attrs, "underline_style", <<2>>)
  ELSE IF code \in DOMAIN Clears THEN Without(attrs, Clears[code])
  ELSE IF code \in 30..37 THEN With(attrs, "foreground", Idx(code - 30))
  ELSE IF code \in 40..47 THEN With(attrs, "background", Idx(code - 40))
  ELSE IF code \in 90..97 THEN With(attrs, "foreground", Idx(code - 82))
  ELSE IF code \in 100..107 THEN With(attrs, "background", Idx(code - 92))
  ELSE IF code \in DOMAIN Extended /\ parse_sgr_color(params, i).color # <<>>
       THEN With(attrs, Extended[code], parse_sgr_color(params, i).color)
  ELSE attrs

(* apply_sgr: at[k] is the loop after k rounds.                              *)
apply_sgr(attrs, params) ==
  LET skip(i) == IF First(params[i]) \in DOMAIN Extended
                 THEN parse_sgr_color(params, i).skip ELSE 0
      at[k \in 0..Len(params)] ==
        IF k = 0 THEN [i |-> 1, attrs |-> attrs]
        ELSE LET s == at[k-1] IN
             IF s.i > Len(params) THEN s
             ELSE [i |-> s.i + 1 + skip(s.i), attrs |-> apply_code(s.attrs, params, s.i)]
  IN IF params = <<>> THEN {} ELSE at[Len(params)].attrs

-----------------------------------------------------------------------------
(* Writing.                                                                  *)

(* The parameters that select a colour: the short form of the base and the   *)
(* bright palette where the field has one, the extended form otherwise.      *)
color_params(color, base, bright, extended, reset) ==
  IF color = <<>> THEN <<<<reset>>>>
  ELSE IF color[1] = "Rgb" THEN << <<extended>>, <<2>>, <<color[2]>>, <<color[3]>>, <<color[4]>> >>
  ELSE IF base > 0 /\ color[2] < 8 THEN << <<color[2] + base>> >>
  ELSE IF base > 0 /\ color[2] < 16 THEN << <<color[2] + bright>> >>
  ELSE << <<extended>>, <<5>>, <<color[2]>> >>

flag_params(target, prev, field, on, off) ==
  IF Has(target, field) = Has(prev, field) THEN <<>>
  ELSE IF Has(target, field) THEN <<<<on>>>> ELSE <<<<off>>>>

(* Bold and dim share one reset: clearing either means 22 and then the one   *)
(* that survives; setting both needs no reset.                               *)
intensity_params(target, prev) ==
  LET bold == Has(target, "bold") dim == Has(target, "dim") IN
  IF bold = Has(prev, "bold") /\ dim = Has(prev, "dim") THEN <<>>
  ELSE (IF bold /\ dim THEN <<>> ELSE <<<<22>>>>)
       \o (IF bold THEN <<<<1>>>> ELSE <<>>) \o (IF dim THEN <<<<2>>>> ELSE <<>>)

blink_params(target, prev) ==
  LET slow == Has(target, "slow_blink") rapid == Has(target, "rapid_blink") IN
  IF slow = Has(prev, "slow_blink") /\ rapid = Has(prev, "rapid_blink") THEN <<>>
  ELSE (IF Has(prev, "slow_blink") \/ Has(prev, "rapid_blink") THEN <<<<25>>>> ELSE <<>>)
       \o (IF slow THEN <<<<5>>>> ELSE <<>>) \o (IF rapid THEN <<<<6>>>> ELSE <<>>)

underline_params(target, prev) ==
  LET style == Value(target, "underline_style") IN
  IF style = Value(prev, "underline_style") THEN <<>>
  ELSE IF style = <<>> THEN <<<<24>>>>
  ELSE IF style = <<1>> THEN <<<<4>>>> ELSE << <<4, style[1]>> >>

(* write_attrs_diff: the parameters of the one SGR that turns prev into      *)
(* target, <<>> when nothing is written.                                     *)
write_attrs_diff(target, prev) ==
  LET color(field, base, bright, extended, reset) ==
        IF Value(target, field) = Value(prev, field) THEN <<>>
        ELSE color_params(Value(target, field), base, bright, extended, reset)
  IN IF target = prev THEN <<>>
     ELSE IF target = {} THEN <<<<0>>>>
     ELSE color("foreground", 30, 82, 38, 39) \o color("background", 40, 92, 48, 49)
          \o intensity_params(target, prev)
          \o flag_params(target, prev, "italic", 3, 23)
          \o underline_params(target, prev)
          \o color("underline_color", 0, 0, 58, 59)
          \o flag_params(target, prev, "inverse", 7, 27)
          \o flag_params(target, prev, "strikethrough", 9, 29)
          \o blink_params(target, prev)
          \o flag_params(target, prev, "conceal", 8, 28)
          \o flag_params(target, prev, "overline", 53, 55)
=============================================================================
