------------------------- MODULE MCSettingsStorage -------------------------
(***************************************************************************)
(* Instances of SettingsStorage for TLC.                                   *)
(***************************************************************************)
EXTENDS SettingsStorage, TLC

CONSTANTS a1, a2, h1, h2, t1, t2

OneActor == {a1}
TwoActors == {a1, a2}
TwoHashes == {h1, h2}
Symmetry == Permutations(TwoHashes) \cup Permutations(TwoActors)

\* The preferences of a first start without environment variables.
FirstStart == [settingsInJSON |-> TRUE, viewedInJSON |-> FALSE]

InBolt == {p \in Prefs : ~p.viewedInJSON}

\* The shipped config.yml, and an old torrserver.db whose import is killed.
Upgraded ==
  [config |-> [settingsInJSON |-> TRUE, viewedInJSON |-> FALSE, rest |-> DefaultRest],
   old |-> {t1, t2}, placed |-> {<<"json", "bbolt">>}, prefs |-> InBolt, indexes |-> {1},
   ops |-> {}, switches |-> {}, values |-> {1}, crashes |-> 2, sessions |-> 3,
   readOnly |-> FALSE, faulty |-> FALSE]

\* Two requests at a time that set, remove and forget.
Shared ==
  [Upgraded EXCEPT !.old = {}, !.ops = {"set", "rem", "forget"}, !.values = {},
                   !.crashes = 0, !.sessions = 2]

\* Settings and history in any database and preferred in any, and a start that is killed
\* twice.
Relocated ==
  [config |-> NoConfig, old |-> {}, placed |-> DBs \X DBs, prefs |-> Prefs, indexes |-> {1, 2},
   ops |-> {}, switches |-> {"settings"}, values |-> {}, crashes |-> 2, sessions |-> 3,
   readOnly |-> FALSE, faulty |-> FALSE]

\* The users mark files while one of them switches the history to the other database,
\* and the next start, which may be killed, finds entries in both.
Switching ==
  [Relocated EXCEPT !.placed = {<<"json", "json">>, <<"json", "bbolt">>},
                    !.prefs = {FirstStart}, !.indexes = {1}, !.ops = {"set"},
                    !.switches = {"viewed"}, !.crashes = 1, !.sessions = 2]

\* A disk whose writes may fail, killed while the history is moved ...
OnBadDisk ==
  [config |-> NoConfig, old |-> {t1}, placed |-> {<<"json", "json">>},
   prefs |-> {FirstStart}, indexes |-> {1}, ops |-> {}, switches |-> {"viewed"}, values |-> {},
   crashes |-> 1, sessions |-> 2, readOnly |-> FALSE, faulty |-> TRUE]

\* ... and one whose users mark files while the history is moved.
MarkedOnBadDisk ==
  [Switching EXCEPT !.placed = {<<"json", "bbolt">>}, !.crashes = 0, !.sessions = 1, !.faulty = TRUE]

\* The old torrserver.db met by a server started with --rdb.
WithRDB ==
  [Upgraded EXCEPT !.readOnly = TRUE, !.ops = {"set", "rem"}, !.crashes = 1]

\* The history was moved to its JSON file, and the settings say bbolt again.
MovedBack ==
  [config |-> NoConfig, old |-> {}, placed |-> {<<"json", "json">>}, prefs |-> {FirstStart},
   indexes |-> {1, 2}, ops |-> {"set", "rem", "forget"}, switches |-> {}, values |-> {0},
   crashes |-> 1, sessions |-> 3, readOnly |-> FALSE, faulty |-> FALSE]

\* Nothing is killed and no write fails; the users switch the history to JSON.
Switched ==
  [MovedBack EXCEPT !.placed = {<<"json", "bbolt">>}, !.ops = {"set"}, !.switches = {"viewed"},
                    !.crashes = 0]

Installations == {Upgraded, Shared, Relocated, Switching, OnBadDisk, MarkedOnBadDisk, WithRDB}
OnlyMovedBack == {MovedBack}
OnlySwitched == {Switched}
OnlyWithRDB == {WithRDB}
=============================================================================
