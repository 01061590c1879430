---------------------------- MODULE MCDataFiles ----------------------------
(***************************************************************************)
(* An instance of DataFiles.  Recording with a crash; replays of two files *)
(* with equal timestamps, at full speed or on a clock, with a few calls    *)
(* from another thread; the journal; the directories.                      *)
(***************************************************************************)
EXTENDS DataFiles

Tick(sym, ts, n) == [sym |-> sym, ts |-> ts, n |-> n]

Short == <<Tick("A", 2, 1), Tick("B", 2, 2), Tick("A", 4, 3)>>

Long == <<Tick("A", 2, 1), Tick("A", 2, 2), Tick("B", 4, 3), Tick("A", 4, 4)>>

Still == [part |-> "journal", data |-> <<>>, events |-> 0, crashes |-> 0,
          opens |-> 0, calls |-> 0, engine |-> FALSE, speed |-> 1,
          ranges |-> {}]

Playing(file_, is_engine, speed_, n) ==
    [Still EXCEPT !.part = "replay", !.data = file_, !.opens = 1,
                  !.calls = n, !.engine = is_engine, !.speed = speed_,
                  !.ranges = {<<2, 4>>}]

MCConfigs ==
    {Still,
     [Still EXCEPT !.part = "rotation"],
     [Still EXCEPT !.part = "ticks", !.events = 3, !.crashes = 1, !.opens = 3],
     Playing(Long, FALSE, 0, 1),
     Playing(Short, FALSE, 0, 3),
     Playing(Short, FALSE, 2, 1),
     Playing(Short, TRUE, 2, 2)}

==============================================================================
