---------------------------- MODULE MCDesktopHost ----------------------------
(* Profiles of one application: a plain one with a panel owned by the main   *)
(* window, one that closes to the tray, one with a background agent, and one *)
(* without a panel, under another identifier, whose services stay.           *)
EXTENDS DesktopHost

Parents(panel) == [main |-> NoParent, panel |-> panel]
Base == [identifier |-> "app", order |-> <<"panel", "main">>, parent |-> Parents("main"),
         shown |-> {"main", "panel"}, tray |-> "none", persistent |-> FALSE,
         agent |-> FALSE, restore |-> TRUE, remember |-> TRUE]

MCProfile ==
    [plain |-> Base,
     tray |-> [Base EXCEPT !.tray = "Hide", !.remember = FALSE],
     agent |-> [Base EXCEPT !.agent = TRUE, !.persistent = TRUE],
     kept |-> [Base EXCEPT !.identifier = "renamed", !.persistent = TRUE, !.order = <<"main">>, !.parent = [main |-> NoParent],
               !.shown = {"main"}]]

Large == [name |-> "large", x |-> 0, y |-> 0, w |-> 2000, h |-> 1000, scale |-> 8]
Small == [name |-> "small", x |-> -800, y |-> 0, w |-> 800, h |-> 600, scale |-> 4]
MCDisplays == {<<Large, Small>>, <<Small>>}

MCPlaces == {[x |-> 700, y |-> 550, w |-> 900, h |-> 700]}
MCIntMin == -100000
==============================================================================
