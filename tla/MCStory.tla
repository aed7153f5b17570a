------------------------------ MODULE MCStory ------------------------------
(***************************************************************************)
(* Small instance of SaveCodec.  Two spellings of one name, a different    *)
(* name with the same slug, namesakes, ids that look repaired; events in   *)
(* two spellings and untrimmed; limits small enough to forget something.   *)
(* A turn varies one part of the wire at a time: the merge of one part     *)
(* does not read another.                                                  *)
(***************************************************************************)
EXTENDS SaveCodec

MCRaw ==
    {"", " ", "Ajax", "ajax", " Ajax", "Ajax!", "ajax!", "Echo", "echo", "fire", "Fire",
     "flood", "storm", "calm", "not yet begun", "not yet met"}

MCTrim == [t \in MCRaw |-> CASE t = " " -> "" [] t = " Ajax" -> "Ajax" [] OTHER -> t]
MCKey ==
    [t \in MCRaw |-> CASE t = "Ajax" -> "ajax" [] t = "Ajax!" -> "ajax!"
                       [] t = "Echo" -> "echo" [] t = "Fire" -> "fire" [] OTHER -> t]
MCWords == MCRaw \cup {"protagonist"}
MCSlug == [t \in MCRaw |-> Word(IF t = "ajax!" THEN "ajax" ELSE t)]

MCLimits ==
    {[major_events |-> e, npcs |-> 3, bridge |-> b, playable |-> 1] :
         <<e, b>> \in {<<1, 2>>, <<2, 1>>}}

Details(description, state) ==
    [description |-> description, backstory |-> description, relationships |-> "",
     current_state |-> state]
Someone(name, description) == [name |-> name, details |-> Details(description, "")]

MCWorlds ==
    {[title |-> "storm", description |-> "calm", characters |-> <<Someone("Echo", "calm")>>,
      npcs |-> <<Someone("Ajax", "calm"), Someone("Ajax", "calm"), Someone("Ajax!", "storm"),
                 Someone(" ", "calm")>>],
     [title |-> "storm", description |-> " ", characters |-> <<Someone("Echo", "calm")>>,
      npcs |-> <<>>],
     [title |-> "storm", description |-> "calm",
      characters |-> <<Someone(" Ajax", "calm"), Someone("Ajax", "storm")>>, npcs |-> <<>>]}

Quiet ==
    [facts |-> [world |-> "", current_situation |-> ""], deltas |-> <<>>, new |-> <<>>,
     consolidated |-> <<>>, upcoming |-> None]
Act(text, kind) == [text |-> text, kind |-> kind]
Plain ==
    [narrative |-> "calm", actions |-> <<Act("calm", "bold")>>, update |-> Quiet,
     starts |-> FALSE, title |-> ""]
Changing(update) == [Plain EXCEPT !.update = update]

MCChapters == {[Plain EXCEPT !.starts = s, !.title = t] : s \in BOOLEAN, t \in {"", "fire"}}

MCEvents ==
    {Changing([Quiet EXCEPT !.new = new, !.consolidated = old]) :
         new \in {<<"fire">>, <<"Fire", "flood">>, <<" ", "storm", "flood", "flood">>},
         old \in {<<>>, <<"flood", "fire", "calm">>}}
    \cup {Changing([Quiet EXCEPT !.upcoming = u]) : u \in {<<>>, <<"fire", "Fire", " ">>}}

ADelta(id, name, description, state) ==
    [id |-> id, name |-> name, details |-> [Details(description, state) EXCEPT !.backstory = ""]]

MCDeltas ==
    {<<ADelta(None, "ajax", "", "storm")>>, <<ADelta(None, "ajax", "storm", "")>>,
     <<ADelta(Word("ajax"), "Echo", "", "")>>,
     <<ADelta(Suffixed(Word("ajax"), 2), "Fire", "fire", "")>>,
     <<ADelta(Word("protagonist"), "Ajax!", "", ""), ADelta(None, "ajax!", "", "storm"),
       ADelta(None, "Echo", "flood", "")>>,
     <<ADelta(None, "storm", "", "storm"), ADelta(None, "Ajax!", "fire", ""),
       ADelta(Word("ajax!"), "", "fire", "fire")>>,
     <<ADelta(Word("ajax"), " ", "", "fire"), ADelta(None, "Ajax", "", "flood"),
       ADelta(Word("flood"), "flood", "fire", " "), ADelta(None, "flood", "fire", "")>>}

MCActions ==
    {<<>>, <<Act(" ", "bold")>>,
     <<Act("fire", "bold"), Act("Fire", "social"), Act(" ", "social"), Act("calm", "bold")>>,
     <<Act("fire", "bold"), Act("calm", "bold"), Act("flood", "bold"), Act("storm", "heroic")>>,
     <<Act("fire", "investigate"), Act("calm", "other"), Act("flood", None), Act("storm", "heroic")>>}

MCCasts == {Changing([Quiet EXCEPT !.deltas = d]) : d \in MCDeltas}

MCOthers ==
    {[Plain EXCEPT !.actions = a] : a \in MCActions}
    \cup {[Plain EXCEPT !.narrative = " "],
          Changing([Quiet EXCEPT !.facts.world = "storm", !.facts.current_situation = " "])}

MCTurnWires ==
    <<MCCasts \cup MCEvents \cup MCChapters \cup MCOthers,
      MCCasts \cup MCEvents \cup MCChapters,
      {[Plain EXCEPT !.starts = TRUE], [Plain EXCEPT !.title = "flood"]}>>
=============================================================================
