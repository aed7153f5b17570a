------------------------------- MODULE Story -------------------------------
(***************************************************************************)
(* The story itself: a world and its casts, the log of turns with the      *)
(* memory (summary) after each of them, chapters, and what of all this is  *)
(* shown to the generator.  A turn arrives as wire text in which anything  *)
(* may be blank, repeated, badly spelled or about nobody; it is normalised *)
(* and merged into the memory.  Turns can be undone, and the game can be   *)
(* restored under other limits.                                            *)
(*                                                                         *)
(* Text is a member of a small set that knows how each text is trimmed and *)
(* spelled in lower case, and what slug a name has.  Texts that travel     *)
(* without being looked at (brief, style, raw answers, provenance) are     *)
(* left out.                                                               *)
(***************************************************************************)
EXTENDS SequencesExt

CONSTANTS
    Raw,         \* texts as they arrive, "" and other blanks among them
    Trim,        \* [Raw -> Raw]: without surrounding blanks
    Key,         \* [Raw -> Raw]: matching_key, the text in lower case
    Slug,        \* [Raw -> Id]: slug of a name in lower case
    Words,       \* what ids are spelled with, "protagonist" among them
    None,
    Worlds,      \* [title, description, characters, npcs] as generated
    TurnWires,   \* sets of turns as generated, one for each place in the log,
                 \* which they bound
    AllLimits    \* limits a game may be played under

Text == {Trim[t] : t \in Raw} \ {""}
Detail == {"description", "backstory", "relationships", "current_state"}
Durable == {"description", "backstory"}
Fact == {"world", "current_situation"}
Kind == {"cautious", "bold", "social", "investigate", "other"}

(* An id is a word and the suffixes it was made unique with.               *)
Id == [word : Words, suffixes : Seq(Nat)]

(* What the generator returns: every text is raw, and may be blank.        *)
PersonWire == [name : Raw, details : [Detail -> Raw]]
WorldWire ==
    [title : Raw, description : Raw, characters : Seq(PersonWire), npcs : Seq(PersonWire)]
DeltaWire == [id : Id \cup {None}, name : Raw, details : [Detail -> Raw]]
UpdateWire ==
    [facts : [Fact -> Raw], deltas : Seq(DeltaWire), new : Seq(Raw),
     consolidated : Seq(Raw), upcoming : Seq(Raw) \cup {None}]
ActionWire == [text : Raw, kind : STRING \cup {None}]
TurnWire ==
    [narrative : Raw, actions : Seq(ActionWire), update : UpdateWire,
     starts : BOOLEAN, title : Raw]

Limits == [major_events : Nat \ {0}, playable : Nat \ {0}, npcs : Nat, bridge : Nat]

ASSUME StoryAssumption ==
    /\ "" \in Raw
    /\ None \notin Raw \cup Id
    /\ Trim \in [Raw -> Raw] /\ \A t \in Raw : Trim[Trim[t]] = Trim[t]
    /\ Key \in [Raw -> Raw]
    /\ Slug \in [Raw -> Id] /\ "protagonist" \in Words
    /\ Worlds \subseteq WorldWire
    /\ TurnWires \in Seq(SUBSET TurnWire)
    /\ AllLimits \subseteq Limits

VARIABLE game

(* Every kind of text is trimmed, and blank text is no text.               *)
Opt(raw) == IF Trim[raw] = "" THEN None ELSE Trim[raw]
OptAll(fields) == [f \in DOMAIN fields |-> Opt(fields[f])]
Present(fields) == \A f \in DOMAIN fields : fields[f] # None

Or(new, old) == [f \in DOMAIN old |-> IF new[f] = None THEN old[f] ELSE new[f]]

(* The entries that are something, in their order.                         *)
Add(kept, e) == IF e = None THEN kept ELSE Append(kept, e)
Some(seq) ==
    LET kept[n \in 0..Len(seq)] ==
            IF n = 0 THEN <<>> ELSE Add(kept[n - 1], seq[n])
    IN kept[Len(seq)]

(* Every entry once, where it comes first.                                 *)
Keep(kept, e) == IF Contains(kept, e) THEN kept ELSE Append(kept, e)
Distinct(seq) ==
    LET kept[n \in 0..Len(seq)] ==
            IF n = 0 THEN <<>> ELSE Keep(kept[n - 1], seq[n])
    IN kept[Len(seq)]
-----------------------------------------------------------------------------
(* Events: trimmed, not blank, told once, in their first spelling.         *)
IsTold(events, text) == \E i \in DOMAIN events : Key[events[i]] = Key[text]

Tell(events, item) ==
    IF Opt(item) = None \/ IsTold(events, Trim[item]) THEN events
    ELSE Append(events, Trim[item])

EventList(items) ==
    LET events[n \in 0..Len(items)] ==
            IF n = 0 THEN <<>> ELSE Tell(events[n - 1], items[n])
    IN events[Len(items)]

(* Mutant: what is told last is forgotten first.                           *)
Oldest(events, limit) == SubSeq(events, 1, Min({limit, Len(events)}))

Latest(events, limit) ==
    IF Len(events) <= limit THEN events
    ELSE SubSeq(events, Len(events) - limit + 1, Len(events))

MajorEvents(events, limit) == [events |-> Latest(events, limit), limit |-> limit]

UpdatedMajor(major, consolidated, new) ==
    LET base == IF consolidated = <<>> THEN major.events ELSE consolidated
    IN MajorEvents(EventList(base \o new), major.limit)
-----------------------------------------------------------------------------
(* Characters.  An id that arrives with a suffix is the id of who got that *)
(* suffix.                                                                 *)
Word(word) == [word |-> word, suffixes |-> <<>>]
Protagonist == Word("protagonist")
IdFor(name) == Slug[Key[name]]

Suffixed(id, n) == [id EXCEPT !.suffixes = Append(@, n)]

Unique(id, taken) ==
    IF id \notin taken THEN id
    ELSE Suffixed(id, CHOOSE n \in 2..(Cardinality(taken) + 2) :
                          /\ Suffixed(id, n) \notin taken
                          /\ \A m \in 2..(n - 1) : Suffixed(id, m) \in taken)

Ids(cast) == {cast[i].id : i \in DOMAIN cast}
Character(id, name, details) == [id |-> id, name |-> name, details |-> details]
HasDetails(details) == \E f \in Durable : details[f] # None

(* CharacterCast::new: exact records collapse, then ids are made unique;   *)
(* a repaired id is not one that comes later either.                       *)
Admit(acc, c) ==
    LET id == IF c.id \in Ids(acc.cast) THEN Unique(c.id, acc.reserved) ELSE c.id
    IN [cast |-> Append(acc.cast, [c EXCEPT !.id = id]),
        reserved |-> acc.reserved \cup {id}]

NewCast(characters) ==
    LET distinct == Distinct(characters)
        admitted[n \in 0..Len(distinct)] ==
            IF n = 0 THEN [cast |-> <<>>, reserved |-> Ids(distinct)]
            ELSE Admit(admitted[n - 1], distinct[n])
    IN admitted[Len(distinct)].cast

(* CharacterCast::updated.  A change is for the character with its id, or  *)
(* else the one with its name, also a name given earlier in this turn;     *)
(* only the first change of a character counts.  A change for nobody       *)
(* introduces somebody, if it is complete.                                 *)
Names(cast) ==
    [k \in {Key[cast[i].name] : i \in DOMAIN cast} |->
         cast[Max({i \in DOMAIN cast : Key[cast[i].name] = k})].id]

Resolve(acc, delta) ==
    IF delta.id \in Ids(acc.cast) THEN delta.id
    ELSE IF delta.name # None /\ Key[delta.name] \in DOMAIN acc.names
    THEN acc.names[Key[delta.name]]
    ELSE None

Rename(names, delta, id) ==
    IF delta.name = None THEN names
    ELSE [k \in DOMAIN names \cup {Key[delta.name]} |->
              IF k = Key[delta.name] THEN id ELSE names[k]]

Change(acc, delta, id) ==
    LET Changed(c) ==
            IF c.id # id THEN c
            ELSE Character(id, IF delta.name = None THEN c.name ELSE delta.name,
                           Or(delta.details, c.details))
    IN [cast |-> [i \in DOMAIN acc.cast |-> Changed(acc.cast[i])],
        names |-> Rename(acc.names, delta, id),
        updated |-> acc.updated \cup {id}]

(* Mutant: the id asked for is taken though somebody has it.               *)
IntroduceAs(acc, delta) ==
    LET id == IF delta.id = None THEN IdFor(delta.name) ELSE delta.id
    IN [cast |-> Append(acc.cast, Character(id, delta.name, delta.details)),
        names |-> Rename(acc.names, delta, id),
        updated |-> acc.updated \cup {id}]

Introduce(acc, delta) ==
    LET id == Unique(IF delta.id = None THEN IdFor(delta.name) ELSE delta.id, Ids(acc.cast))
    IN [cast |-> Append(acc.cast, Character(id, delta.name, delta.details)),
        names |-> Rename(acc.names, delta, id),
        updated |-> acc.updated \cup {id}]

Apply(acc, delta) ==
    LET id == Resolve(acc, delta) IN
    IF id \in acc.updated THEN acc
    ELSE IF id # None THEN Change(acc, delta, id)
    ELSE IF delta.name # None /\ HasDetails(delta.details) THEN Introduce(acc, delta)
    ELSE acc

Untouched(cast) == [cast |-> cast, names |-> Names(cast), updated |-> {}]

UpdatedCast(cast, deltas) ==
    LET applied[n \in 0..Len(deltas)] ==
            IF n = 0 THEN Untouched(cast) ELSE Apply(applied[n - 1], deltas[n])
    IN applied[Len(deltas)].cast
-----------------------------------------------------------------------------
(* Quick actions: at most three, of different kinds if there are more.     *)
QuickActionCount == 3

Offer(kept, a) ==
    IF \E i \in DOMAIN kept : Key[kept[i].text] = Key[a.text] THEN kept ELSE Append(kept, a)

Offered(actions) ==
    LET kept[n \in 0..Len(actions)] ==
            IF n = 0 THEN <<>> ELSE Offer(kept[n - 1], actions[n])
    IN kept[Len(actions)]

Rank(S, i) == Cardinality({j \in S : j <= i})
Earliest(S, n) == {i \in S : Rank(S, i) <= n}

(* The first of every kind first, then whatever comes early.               *)
Chosen(offered) ==
    LET places == 1..Len(offered)
        leads == {i \in places : \A j \in 1..(i - 1) : offered[j].kind # offered[i].kind}
        first == Earliest(leads, QuickActionCount)
    IN first \cup Earliest(places \ first, QuickActionCount - Cardinality(first))

QuickActions(actions) ==
    LET offered == Offered(actions)
        chosen == Chosen(offered)
    IN IF Len(offered) <= QuickActionCount THEN offered
       ELSE [n \in 1..QuickActionCount |-> offered[CHOOSE i \in chosen : Rank(chosen, i) = n]]
-----------------------------------------------------------------------------
(* What the generator returns, as domain values: None if it is unusable.   *)
Person(wire) ==
    LET details == OptAll(wire.details) IN
    IF Opt(wire.name) = None \/ \E f \in Durable : details[f] = None THEN None
    ELSE [name |-> Opt(wire.name), details |-> details]
People(wires) == Some([i \in DOMAIN wires |-> Person(wires[i])])

WorldOf(wire, limits) ==
    LET playable == Distinct(People(wire.characters))
        npcs == Distinct(People(wire.npcs))
    IN IF \/ Opt(wire.title) = None \/ Opt(wire.description) = None
          \/ Len(playable) < limits.playable
       THEN None
       ELSE [title |-> Opt(wire.title), description |-> Opt(wire.description),
             playable |-> playable,
             npcs |-> SubSeq(npcs, 1, Min({Len(npcs), limits.npcs}))]

Delta(wire) == [id |-> wire.id, name |-> Opt(wire.name), details |-> OptAll(wire.details)]

Update(wire) ==
    [facts |-> OptAll(wire.facts),
     deltas |-> [i \in DOMAIN wire.deltas |-> Delta(wire.deltas[i])],
     new |-> EventList(wire.new),
     consolidated |-> EventList(wire.consolidated),
     upcoming |-> IF wire.upcoming = None THEN None ELSE EventList(wire.upcoming)]

(* A kind that nobody knows, or none, is a kind of its own.               *)
KindOf(kind) == IF kind \in Kind THEN kind ELSE "other"

Action(wire) ==
    IF Opt(wire.text) = None THEN None ELSE [text |-> Opt(wire.text), kind |-> KindOf(wire.kind)]

TurnOf(wire) ==
    LET actions == QuickActions(Some([i \in DOMAIN wire.actions |-> Action(wire.actions[i])]))
    IN IF Opt(wire.narrative) = None \/ actions = <<>> THEN None
       ELSE [narrative |-> Opt(wire.narrative), actions |-> actions,
             update |-> Update(wire.update), starts |-> wire.starts,
             title |-> Opt(wire.title)]
-----------------------------------------------------------------------------
(* The game.  Everything but the log of turns is derived from it.          *)
NotYetBegun == "not yet begun"
NotYetMet == "not yet met"

Start(world, position, limits) ==
    [world |-> world, position |-> position, limits |-> limits, original |-> limits,
     turns |-> <<>>]

Meet(cast, npc) ==
    Append(cast, Character(Unique(IdFor(npc.name), Ids(cast)), npc.name,
                           [npc.details EXCEPT !.current_state = NotYetMet]))

InitialCast(protagonist, npcs) ==
    LET known == Character(Protagonist, protagonist.name, protagonist.details)
        met[n \in 0..Len(npcs)] ==
            IF n = 0 THEN <<known>> ELSE Meet(met[n - 1], npcs[n])
    IN met[Len(npcs)]

InitialSummary(g) ==
    LET protagonist == g.world.playable[g.position]
    IN [facts |-> [world |-> g.world.description, current_situation |-> NotYetBegun],
        cast |-> NewCast(InitialCast(protagonist, g.world.npcs)),
        major |-> MajorEvents(<<>>, g.limits.major_events),
        upcoming |-> <<>>]

SummaryAt(g, n) == IF n = 0 THEN InitialSummary(g) ELSE g.turns[n].summary
CurrentSummary(g) == SummaryAt(g, Len(g.turns))

Updated(summary, update) ==
    [facts |-> Or(update.facts, summary.facts),
     cast |-> UpdatedCast(summary.cast, update.deltas),
     major |-> UpdatedMajor(summary.major, update.consolidated, update.new),
     upcoming |-> IF update.upcoming = None THEN summary.upcoming ELSE update.upcoming]

Commit(g, turn) ==
    [g EXCEPT !.turns =
         Append(@, [turn |-> turn, summary |-> Updated(CurrentSummary(g), turn.update)])]

(* Mutant: the limits change, and the memory of the turns does not.        *)
RestoreLogAsIs(g, limits) == [g EXCEPT !.limits = limits]

(* Restoring under other limits cuts the memory after every turn.          *)
Cut(record, limit) == [record EXCEPT !.summary.major = MajorEvents(@.events, limit)]

Restore(g, limits) ==
    [world |-> g.world, position |-> g.position, limits |-> limits, original |-> g.original,
     turns |-> [i \in DOMAIN g.turns |-> Cut(g.turns[i], limits.major_events)]]
-----------------------------------------------------------------------------
(* Chapters: number, title and turns, in one pass over the log.            *)
TitleOf(turns) ==
    LET titled == {i \in DOMAIN turns : turns[i].turn.title # None}
    IN IF titled = {} THEN None ELSE turns[Max(titled)].turn.title

Close(turns, acc, next) ==
    LET body == SubSeq(turns, acc.start, next - 1) IN
    [chapters |-> Append(acc.chapters, [number |-> Len(acc.chapters),
                                        title |-> TitleOf(body), turns |-> body]),
     start |-> next]

Visit(turns, acc, i) == IF i > 1 /\ turns[i].turn.starts THEN Close(turns, acc, i) ELSE acc

Chapters(turns) ==
    LET visited[i \in 0..Len(turns)] ==
            IF i = 0 THEN [chapters |-> <<>>, start |-> 1] ELSE Visit(turns, visited[i - 1], i)
    IN IF turns = <<>> THEN <<>> ELSE Close(turns, visited[Len(turns)], Len(turns) + 1).chapters

(* Where the current chapter starts, looking back from the last turn.      *)
(* Mutant: a chapter never starts with the last turn.                      *)
ChapterStartBefore(turns) ==
    LET back[i \in DOMAIN turns] ==
            IF i = 1 THEN 1
            ELSE IF i < Len(turns) /\ turns[i].turn.starts THEN i ELSE back[i - 1]
    IN back[Len(turns)]

ChapterStart(turns) ==
    LET back[i \in DOMAIN turns] ==
            IF i = 1 \/ turns[i].turn.starts THEN i ELSE back[i - 1]
    IN back[Len(turns)]

(* The prose sent to the generator: the current chapter, and a bridge of   *)
(* turns before it.                                                        *)
ProseContext(g) ==
    LET n == Len(g.turns)
        start == ChapterStart(g.turns)
        bridge == Min({Max({0, n - g.limits.bridge}) + 1, start})
    IN IF n = 0 THEN [bridge |-> <<>>, current |-> <<>>]
       ELSE [bridge |-> SubSeq(g.turns, bridge, start - 1),
             current |-> SubSeq(g.turns, start, n)]
-----------------------------------------------------------------------------
Init ==
    \E wire \in Worlds, limits \in AllLimits :
        LET world == WorldOf(wire, limits) IN
        /\ world # None
        /\ \E position \in DOMAIN world.playable : game = Start(world, position, limits)

TakeTurn ==
    /\ Len(game.turns) < Len(TurnWires)
    /\ \E wire \in TurnWires[Len(game.turns) + 1] :
           /\ TurnOf(wire) # None
           /\ game' = Commit(game, TurnOf(wire))

(* Only as many turns as there are can be undone.                          *)
Rewind ==
    \E count \in 1..Len(game.turns) :
        game' = [game EXCEPT !.turns = SubSeq(@, 1, Len(@) - count)]
=============================================================================
