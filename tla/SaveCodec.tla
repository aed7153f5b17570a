----------------------------- MODULE SaveCodec -----------------------------
(***************************************************************************)
(* How a story becomes a save document and comes back.  The document holds *)
(* plain values: text, "" where there is none, lists of text.  Reading it  *)
(* must not repair anything: what normalisation would change, drop or      *)
(* reorder is refused, so that stored history is never changed silently.   *)
(* One thing is repaired: the kind of an action that is not one of Kind,   *)
(* or that is omitted, is read as "other".                                 *)
(*                                                                         *)
(* Documents are compared field by field; bytes, revision, time, source    *)
(* and unrecognised fields are left out, and so are the sizes and depths   *)
(* at which a document is refused.  An optional field is always there: one *)
(* that is omitted is read as its default, "", none or an empty list.      *)
(***************************************************************************)
EXTENDS Story

CONSTANTS
    Version,     \* of the documents this program writes
    Spoilt       \* text that is not trimmed, used to spoil a document

ASSUME CodecAssumption ==
    /\ Version \in Nat \ {0}
    /\ Spoilt \in Raw /\ Trim[Spoilt] # Spoilt
    /\ Trim[""] = ""
    /\ {NotYetBegun, NotYetMet} \subseteq Text

(* A field that cannot be read makes the whole document invalid.           *)
Invalid == [invalid |-> TRUE]
IsValid(v) == v # Invalid
-----------------------------------------------------------------------------
(* Writing.                                                                *)
Sentinel(text) == IF text = None THEN "" ELSE text
SentinelAll(fields) == [f \in DOMAIN fields |-> Sentinel(fields[f])]
Each(seq, Write(_)) == [i \in DOMAIN seq |-> Write(seq[i])]

SaveCharacter(c) == [c EXCEPT !.details = SentinelAll(@)]
SaveDelta(d) ==
    [id |-> d.id, name |-> Sentinel(d.name), details |-> SentinelAll(d.details)]
SaveUpdate(u) ==
    [facts |-> SentinelAll(u.facts), deltas |-> Each(u.deltas, SaveDelta), new |-> u.new,
     consolidated |-> u.consolidated, upcoming |-> u.upcoming]

SaveSummary(s) ==
    [facts |-> s.facts, cast |-> Each(s.cast, SaveCharacter),
     major |-> s.major.events, upcoming |-> s.upcoming]

SaveTurn(t) == [t EXCEPT !.update = SaveUpdate(@)]
SaveRecord(r) == [turn |-> SaveTurn(r.turn), summary |-> SaveSummary(r.summary)]

SavePerson(p) == [p EXCEPT !.details = SentinelAll(@)]
SaveWorld(w) ==
    [title |-> w.title, description |-> w.description,
     playable |-> Each(w.playable, SavePerson), npcs |-> Each(w.npcs, SavePerson)]

SaveOf(g) ==
    [world |-> SaveWorld(g.world), position |-> g.position, original |-> g.original,
     limits |-> g.limits, turns |-> Each(g.turns, SaveRecord)]

Envelope(g) ==
    [version |-> Version, title |-> g.world.title, turn_count |-> Len(g.turns),
     game |-> SaveOf(g)]
-----------------------------------------------------------------------------
(* Reading.                                                                *)
IsNormal(s) == Trim[s] = s /\ s # ""
IsOptional(s) == Trim[s] = s
AllNormal(fields) == \A f \in DOMAIN fields : IsNormal(fields[f])
AllOptional(fields) == \A f \in DOMAIN fields : IsOptional(fields[f])
NoneIfEmpty(s) == IF s = "" THEN None ELSE s
Optional(fields) == [f \in DOMAIN fields |-> NoneIfEmpty(fields[f])]

(* Mutant: repeated events are dropped while reading.                      *)
IsEventListOrMore(items) == \A i \in DOMAIN items : IsNormal(items[i])

IsEventList(items) == EventList(items) = items

IsCharacter(c) ==
    /\ AllOptional(c.details)
    /\ IsNormal(c.name)
    /\ HasDetails(Optional(c.details))
ReadCharacter(c) == [c EXCEPT !.details = Optional(@)]

IsDelta(d) == IsOptional(d.name) /\ AllOptional(d.details)
ReadDelta(d) ==
    [id |-> d.id, name |-> NoneIfEmpty(d.name), details |-> Optional(d.details)]

IsUpdate(u) ==
    /\ AllOptional(u.facts)
    /\ \A i \in DOMAIN u.deltas : IsDelta(u.deltas[i])
    /\ IsEventList(u.new)
    /\ IsEventList(u.consolidated)
    /\ u.upcoming # None => IsEventList(u.upcoming)
ReadUpdate(u) ==
    [facts |-> Optional(u.facts), deltas |-> Each(u.deltas, ReadDelta),
     new |-> EventList(u.new), consolidated |-> EventList(u.consolidated),
     upcoming |-> IF u.upcoming = None THEN None ELSE EventList(u.upcoming)]

(* An action is read with a kind that is known; kind None is an omitted one. *)
ReadAction(a) == [text |-> a.text, kind |-> KindOf(a.kind)]

(* Mutant: actions of a kind that nobody knows are dropped while reading.  *)
ReadKnownActions(actions) ==
    Each(SelectSeq(actions, LAMBDA a : a.kind \in Kind), ReadAction)

ReadActions(actions) == Each(actions, ReadAction)

IsTurn(t) ==
    /\ Len(t.actions) \in 1..QuickActionCount
    /\ \A i \in DOMAIN t.actions : IsNormal(t.actions[i].text)
    /\ QuickActions(ReadActions(t.actions)) = ReadActions(t.actions)
    /\ t.title # None => IsNormal(t.title)
    /\ IsNormal(t.narrative)
    /\ IsUpdate(t.update)

IsSummary(s, limits) ==
    /\ Len(s.major) <= limits.major_events
    /\ IsEventList(s.major)
    /\ \A i \in DOMAIN s.cast : IsCharacter(s.cast[i])
    /\ Cardinality(Ids(s.cast)) = Len(s.cast)
    /\ s.cast # <<>> /\ NewCast(s.cast) = s.cast
    /\ AllNormal(s.facts)
    /\ IsEventList(s.upcoming)

ReadSummary(s, limits) ==
    [facts |-> s.facts, cast |-> NewCast(Each(s.cast, ReadCharacter)),
     major |-> MajorEvents(EventList(s.major), limits.major_events),
     upcoming |-> EventList(s.upcoming)]

ReadTurn(t) ==
    [narrative |-> t.narrative, actions |-> QuickActions(ReadActions(t.actions)),
     update |-> ReadUpdate(t.update), starts |-> t.starts, title |-> t.title]
ReadRecord(r, limits) ==
    [turn |-> ReadTurn(r.turn), summary |-> ReadSummary(r.summary, limits)]

IsPerson(p) ==
    /\ IsNormal(p.name)
    /\ \A f \in Durable : IsNormal(p.details[f])
    /\ AllOptional(p.details)
ReadPerson(p) == [p EXCEPT !.details = Optional(@)]

(* WorldCast::restore: no record is dropped and no limit applies.          *)
IsWorld(w) ==
    /\ \A people \in {w.playable, w.npcs} :
           /\ \A i \in DOMAIN people : IsPerson(people[i])
           /\ Distinct(people) = people
    /\ w.playable # <<>>
    /\ IsNormal(w.title) /\ IsNormal(w.description)
ReadWorld(w) ==
    [title |-> w.title, description |-> w.description,
     playable |-> Each(w.playable, ReadPerson), npcs |-> Each(w.npcs, ReadPerson)]

IsLimits(limits) == limits.major_events > 0 /\ limits.playable > 0

IsGame(d) ==
    /\ IsLimits(d.original) /\ IsLimits(d.limits)
    /\ IsWorld(d.world)
    /\ d.position \in DOMAIN d.world.playable
    /\ \A i \in DOMAIN d.turns :
           /\ IsTurn(d.turns[i].turn)
           /\ IsSummary(d.turns[i].summary, d.limits)

ReadGame(d) ==
    Restore([world |-> ReadWorld(d.world), position |-> d.position, limits |-> d.limits,
             original |-> d.original,
             turns |-> [i \in DOMAIN d.turns |-> ReadRecord(d.turns[i], d.limits)]],
            d.limits)

Into(d) == IF IsGame(d) THEN ReadGame(d) ELSE Invalid

(* encode refuses a game that would not come back as it is.                *)
Encode(g) == IF Into(SaveOf(g)) = g THEN Envelope(g) ELSE Invalid

(* migrations: there is no older version to upgrade from.                  *)
Upgrade(doc) == IF doc.version = Version THEN doc ELSE Invalid

Decode(doc) ==
    IF ~IsValid(Upgrade(doc)) THEN Invalid
    ELSE LET g == Into(doc.game) IN
         IF IsValid(g) /\ doc.title = g.world.title /\ doc.turn_count = Len(g.turns)
         THEN g ELSE Invalid
-----------------------------------------------------------------------------
(* The game is saved and loaded again: load_game applies the limits of its *)
(* caller, or those the game was created under.                            *)
Reload ==
    LET saved == Encode(game) IN
    /\ IsValid(saved)
    /\ LET loaded == Decode(saved) IN
       \E limits \in AllLimits \cup {game.original} : game' = Restore(loaded, limits)

Next == TakeTurn \/ Rewind \/ Reload

Spec == Init /\ [][Next]_game
-----------------------------------------------------------------------------
(* Whatever turns are taken and undone under whatever limits, the story    *)
(* can be saved, and what is read back is the story: nothing the merge of  *)
(* a turn produces is something the strict reader refuses or changes       *)
(* (codec.rs, "Check the same lossless aggregate constraints before        *)
(* producing a document we cannot read").                                  *)
StoryCanBeSaved == IsValid(Encode(game)) /\ Decode(Encode(game)) = game

(* Documents somebody else may have written: under other limits, without   *)
(* the last turn, with something twice, out of range, or spoilt.           *)
Doubled(seq) == IF seq = <<>> THEN seq ELSE Append(seq, Head(seq))

SpoiltSummaries(s) ==
    {[s EXCEPT !.major = Doubled(@)], [s EXCEPT !.major = Reverse(@)],
     [s EXCEPT !.upcoming = Append(@, Spoilt)], [s EXCEPT !.cast = Doubled(@)],
     [s EXCEPT !.cast = Append(@, [Head(@) EXCEPT !.name = s.facts.current_situation])],
     [s EXCEPT !.cast[1].name = Spoilt], [s EXCEPT !.cast[1].details.description = ""],
     [s EXCEPT !.facts.world = ""]}

SpoiltTurns(t) ==
    {[t EXCEPT !.actions = Doubled(@)], [t EXCEPT !.actions = <<>>],
     [t EXCEPT !.actions[1].kind = Spoilt], [t EXCEPT !.actions[1].kind = None],
     [t EXCEPT !.title = Spoilt], [t EXCEPT !.title = ""],
     [t EXCEPT !.update.new = Doubled(@)], [t EXCEPT !.update.facts.world = Spoilt]}

SpoiltWorlds(w) ==
    {[w EXCEPT !.playable = Doubled(@)], [w EXCEPT !.npcs = Doubled(@)],
     [w EXCEPT !.playable[1].name = Spoilt], [w EXCEPT !.title = ""]}

SpoiltGames(d) ==
    {[d EXCEPT !.limits = limits] : limits \in AllLimits}
    \cup {[d EXCEPT !.position = @ + 1], [d EXCEPT !.turns = Reverse(@)]}
    \cup {[d EXCEPT !.turns = SubSeq(@, 1, n)] : n \in 0..Len(d.turns)}
    \cup {[d EXCEPT !.world = w] : w \in SpoiltWorlds(d.world)}
    \cup LET n == Len(d.turns) IN
         IF n = 0 THEN {}
         ELSE {[d EXCEPT !.turns[n].turn = t] : t \in SpoiltTurns(d.turns[n].turn)}
              \cup {[d EXCEPT !.turns[n].summary = s] :
                        s \in SpoiltSummaries(d.turns[n].summary)}

Documents(doc) ==
    {[doc EXCEPT !.version = @ + 1], [doc EXCEPT !.title = Spoilt],
     [doc EXCEPT !.turn_count = @ + 1]}
    \cup {[version |-> doc.version, title |-> doc.title, turn_count |-> Len(d.turns),
            game |-> d] : d \in SpoiltGames(doc.game)}

(* A document as this program writes it: the kind of an action is known.   *)
WithKind(a) == IF a.kind \in Kind THEN a ELSE [a EXCEPT !.kind = "other"]
WithKinds(r) == [r EXCEPT !.turn.actions = Each(@, WithKind)]
Canonical(doc) == [doc EXCEPT !.game.turns = Each(@, WithKinds)]

(* Reading a document changes nothing in it but kinds of actions: it is    *)
(* refused, or the game that comes out of it is written as the very same   *)
(* document (dto.rs, "normalization may not silently change stored         *)
(* history"), where a kind that nobody knows, or none, has become "other"  *)
(* (v1-full-story.json, "unrecognized-kind"; save_compatibility.rs).  Such *)
(* a kind is no reason to refuse: the document is read like the one        *)
(* written.                                                                *)
LoadLosesNothing ==
    \A doc \in Documents(Envelope(game)) :
        LET written == Canonical(doc)
            read == Decode(doc)
        IN  /\ written # doc => read = Decode(written)
            /\ IsValid(read) => Encode(read) = written

(* Whom a change can be for: who has its id, or else, if nobody has, the   *)
(* last one with its name.                                                 *)
IsFor(d, cast, i) ==
    \/ d.id = cast[i].id
    \/ /\ d.id \notin Ids(cast)
       /\ d.name # None /\ Key[d.name] = Key[cast[i].name]
       /\ \A j \in DOMAIN cast : j > i => Key[d.name] # Key[cast[j].name]

(* Its name, or an id that is new, may have gone to somebody else earlier  *)
(* in the same turn.                                                       *)
IsTaken(deltas, k, after) ==
    \/ deltas[k].id \in Ids(after)
    \/ \E j \in 1..(k - 1) :
          deltas[j].name # None /\ Key[deltas[j].name] = Key[deltas[k].name]

(* What becomes of somebody: just what one change that can be for them     *)
(* says; or nothing, if there is no such change, or others have taken it.  *)
IsChanged(cast, deltas, after, i) ==
    \E k \in DOMAIN deltas :
        LET d == deltas[k] IN
        /\ IsFor(d, cast, i)
        /\ after[i] = Character(cast[i].id, IF d.name = None THEN cast[i].name ELSE d.name,
                                Or(d.details, cast[i].details))

IsLeft(cast, deltas, after, i) ==
    /\ after[i] = cast[i]
    /\ \A k \in DOMAIN deltas :
           /\ deltas[k].id # cast[i].id
           /\ IsFor(deltas[k], cast, i) => IsTaken(deltas, k, after)

(* Somebody new is who one change says, complete, and nobody was meant by  *)
(* that change: neither its id nor its name was known.                     *)
IsIntroduced(cast, deltas, c) ==
    \E k \in DOMAIN deltas :
        LET d == deltas[k] IN
        /\ d.id \notin Ids(cast) /\ d.name # None
        /\ \A i \in DOMAIN cast : Key[d.name] # Key[cast[i].name]
        /\ c = Character(c.id, d.name, d.details)
        /\ HasDetails(d.details)

(* Nobody is lost, moved, emptied or mixed up with another: the cast only  *)
(* grows, under new ids, whatever the generator calls people, a change     *)
(* reaches who it is for and no one else, and nobody is introduced twice.  *)
PeopleAreKept(cast, deltas, after) ==
    /\ Len(after) >= Len(cast)
    /\ Cardinality(Ids(after)) = Len(after)
    /\ \A i \in DOMAIN cast : IsChanged(cast, deltas, after, i) \/ IsLeft(cast, deltas, after, i)
    /\ \A i \in DOMAIN after \ DOMAIN cast : IsIntroduced(cast, deltas, after[i])
    /\ \A i, j \in DOMAIN after \ DOMAIN cast :
           Key[after[i].name] = Key[after[j].name] => i = j
    /\ \A i \in DOMAIN after : HasDetails(after[i].details)

(* The memory is the end of all that was told, as much of it as the limit  *)
(* allows: what was remembered, or what it was consolidated to, in its     *)
(* order, and then what is news.  What is forgotten is what is oldest.     *)
Fresh(old, news) == Some([i \in DOMAIN news |-> IF IsTold(old, news[i]) THEN None ELSE news[i]])

EventsAreKept(events, update, kept, limit) ==
    LET old == IF update.consolidated = <<>> THEN events ELSE update.consolidated
        told == old \o Fresh(old, update.new)
    IN  /\ Len(kept) = Min({limit, Len(told)})
        /\ \A i \in DOMAIN kept : kept[i] = told[Len(told) - Len(kept) + i]

(* What a turn does to the memory, under the limits now in force.          *)
MemoryGrows ==
    [][ /\ Head(CurrentSummary(game').cast).id = Protagonist
        /\ Len(game'.turns) > Len(game.turns) =>
               LET before == CurrentSummary(game)
                   update == Last(game'.turns).turn.update
                   after == CurrentSummary(game')
               IN  /\ PeopleAreKept(before.cast, update.deltas, after.cast)
                   /\ EventsAreKept(before.major.events, update, after.major.events,
                                    game'.limits.major_events) ]_game

(* The two ways to look at chapters agree: the prose shown is the whole of *)
(* the current chapter and, if that is short, just enough turns before it; *)
(* the chapters are the log, cut where a turn other than the first says.   *)
ContextIsTheStory ==
    LET context == ProseContext(game)
        shown == context.bridge \o context.current
        chapters == Chapters(game.turns)
        n == Len(game.turns)
    IN  /\ FlattenSeq([i \in DOMAIN chapters |-> chapters[i].turns]) = game.turns
        /\ \A i \in DOMAIN chapters :
               /\ chapters[i].number = i - 1
               /\ \A j \in DOMAIN chapters[i].turns :
                      chapters[i].turns[j].turn.starts /\ i > 1 => j = 1
        /\ IsSuffix(shown, game.turns)
        /\ n > 0 => context.current = Last(chapters).turns
        /\ Len(shown) = Max({Len(context.current), Min({n, game.limits.bridge})})
=============================================================================
