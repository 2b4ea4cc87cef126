----------------------------- MODULE MCRenderer -----------------------------
(***************************************************************************)
(* White, which is one long entry, and a wave of two colors, whose four    *)
(* entries are shorter than the slow fade to white.                        *)
(***************************************************************************)
EXTENDS Renderer

MCTransitions == {"dither", "swipe", "fade", "slow"}
MCCreated == [slow |-> {"slow"}, random |-> {"dither", "swipe", "fade"}]
MCDuration == [dither |-> 2, swipe |-> 2, fade |-> 3, slow |-> 4]
MCSteps == [dither |-> 81, swipe |-> 17, fade |-> 255, slow |-> 255]

\* CreateColorWave
Part(top, main, transition, duration) ==
    [top |-> top, main |-> main, transition |-> transition, duration |-> duration]
Wave(colors, duration) ==
    [k \in 1..(2 * Len(colors)) |->
        LET i == (k + 1) \div 2
            after == colors[(i % Len(colors)) + 1]
        IN  Part(IF k % 2 = 1 THEN colors[i] ELSE after, colors[i], "random", duration)]

MCEntries == [n \in Names |->
    IF n = "White" THEN <<Part("white", "white", "slow", 5)>>
    ELSE Wave(<<"blue", "green">>, 3)]
=============================================================================
