-------------------------- MODULE MCTCPSpongeSocket --------------------------
EXTENDS TCPSpongeSocketSpec
MCConfig == [recv_capacity |-> 3, send_capacity |-> 2, rt_timeout |-> 1, fixed_isn |-> 0]
MCPeerConfig == [MCConfig EXCEPT !.recv_capacity = 1]
=============================================================================
