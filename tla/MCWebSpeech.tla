---------------------------- MODULE MCWebSpeech -----------------------------
(* WebSpeech for TLC: short and long lines of each priority. *)
EXTENDS WebSpeech

MCItem(priority, text, heartbeat, chars) ==
  [priority |-> priority, text |-> text, groupable |-> priority = "progress",
   heartbeat |-> heartbeat, displayOnly |-> FALSE, chars |-> chars]

CONSTANTS x, y
One == <<Letter>>
Long == <<Letter, Break, Letter, Letter>>
MCItems ==
  {MCItem("progress", x, FALSE, Long), MCItem("progress", y, TRUE, One),
   MCItem("notice", y, FALSE, One), MCItem("urgent", x, FALSE, One),
   MCItem("progress", NoText, FALSE, One),
   [MCItem("progress", x, FALSE, One) EXCEPT !.displayOnly = TRUE]}
=============================================================================
