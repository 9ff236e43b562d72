------------------------------ MODULE MCFacts ------------------------------
(* Values for TLC: few supplies and sensors, short intervals. *)
EXTENDS Facts

Mains(name, online) == [name |-> name, online |-> online, type |-> "Mains", capacity |-> None]
Battery(capacity) == [name |-> "BAT0", online |-> None, type |-> "Battery", capacity |-> capacity]

\* On mains, on battery with two charges.
MCSupplies == { <<Mains("AC", "1"), Battery(50)>>, <<Mains("AC", "0"), Battery(50)>>,
                <<Battery(49), Mains("USBC000", "0")>> }

Process(comm, ppid, appid) == [comm |-> comm, ppid |-> ppid, appid |-> appid]

\* A game that outlived Steam, Steam with a wrapper, and a game in its wrapper.
MCProcessTables ==
  { <<Process("game", 0, 440)>>,
    <<Process("steam", 0, None), Process("pressure-vessel", 1, 440)>>,
    <<Process("steam", 0, None), Process("pressure-vessel", 1, 440), Process("game", 2, 440)>> }

MCHwmons == { <<"k10temp">>, <<"nvme", "zenpower">>, <<>> }
=============================================================================
