---------------------------- MODULE MCPipeBroker ----------------------------
\* PipeBroker for TLC.
EXTENDS PipeBroker, TLC

CONSTANTS left, center

\* The left pipe is advertised, dropped and advertised again; the center one never is (the
\* selected camera is not there), but a view may turn to it.
OnlyLeft == (left :> 2) @@ (center :> 0)

\* Both pipes are advertised once; they are interchangeable, as the channels.
OnceEach == (left :> 1) @@ (center :> 1)
ChannelPipeSymmetry == Permutations(Channels) \union Permutations(Pipes)
=============================================================================
