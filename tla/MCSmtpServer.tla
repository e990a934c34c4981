---------------------------- MODULE MCSmtpServer ----------------------------
(* SmtpServer with a client that opens a transaction and goes on as it likes. *)
EXTENDS SmtpServer

MCOpening == <<"EHLO", "MAIL", "RCPT", "DATA">>

=============================================================================
