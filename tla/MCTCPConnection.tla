--------------------------- MODULE MCTCPConnection ---------------------------
EXTENDS TCPConnectionSpec
MCConfig == [recv_capacity |-> 2, send_capacity |-> 2, rt_timeout |-> 1, fixed_isn |-> 0]
MCWorkloads == {[x |-> 2, y |-> 1], [x |-> 3, y |-> 0]}
=============================================================================
