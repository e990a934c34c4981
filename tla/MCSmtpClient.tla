---------------------------- MODULE MCSmtpClient ----------------------------
(* SmtpClient without a destination, with one and three recipients, so that a reply has time to *)
(* come late and be lost, and with two destinations that share an address.                      *)
EXTENDS SmtpClient

CONSTANTS a1, a2

MCJobs ==
  { [dests |-> << >>, rcpts |-> 1],
    [dests |-> << << >>, <<a1>> >>, rcpts |-> 3],
    [dests |-> << <<a1, a2>>, <<a2>> >>, rcpts |-> 1],
    [dests |-> << <<a1>>, <<a1, a2>> >>, rcpts |-> 1] }

=============================================================================
