----------------------------- MODULE MCDataDir -----------------------------
(* Two versions, and texts with a comma, with a quote and without either.      *)
EXTENDS DataDir

MCNumberOf == [w \in {"0", "1", "2", "3"} |->
                  CASE w = "0" -> 0 [] w = "1" -> 1 [] w = "2" -> 2 [] OTHER -> 3]

MCValid == [log_level |-> {"INFO", "WARN", "ERROR"}, reset_on_enter |-> {"true", "false"},
            repeat_key_delay |-> {"120", "7"}]
MCDefault == [log_level |-> "INFO", reset_on_enter |-> "true", repeat_key_delay |-> "120"]

MCTexts == {<<"a">>, <<"b", ",", "1">>, <<Quote, "c">>, <<Quote, Quote, ",">>}
============================================================================
