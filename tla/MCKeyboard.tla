----------------------------- MODULE MCKeyboard -----------------------------
(* Two shifts and a control key; jobs that type a letter of either case, a   *)
(* digit, a symbol, text inside a tag that holds shift, and arrows.          *)
EXTENDS Keyboard

CONSTANTS ControlL

MCOrder == <<ShiftL, ShiftR, ControlL>>

Small == Type(Char("a", FALSE, "letter"))
Capital == Type(Char("a", TRUE, "letter"))
Digit == Type(Char("1", FALSE, "digit"))
Symbol == Type(Char("1", TRUE, "symbol"))
Comma == Type(Char(",", FALSE, "symbol"))

MCJobs ==
    {<<Arrows(2), Capital>>, <<Small, Symbol>>, <<Digit>>, <<Comma>>,
     <<Press(ShiftL), Small, Release(ShiftL)>>, <<Press(ControlL), Release(ControlL)>>}
============================================================================
