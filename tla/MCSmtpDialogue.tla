--------------------------- MODULE MCSmtpDialogue ---------------------------
(* A small instance of SmtpDialogue for TLC. *)
EXTENDS SmtpDialogue

\* A line that ends with a dot; nothing; a line that is a lone dot; a mail that
\* fits but leaves no room for the terminator; one that does not fit.
Mails == { <<"t", ".", "\r", "\n">>, <<>>,
           <<"t", "\r", "\n", ".", "\r", "\n", "t">>,
           <<"t", "t", "t", "t", "t", "t", "\r", "\n">>,
           <<"t", "t", "t", "t", "t", "t", "t", "t", "t", "t", "t", "\r", "\n">> }

\* SMTP_Server_IO::greetings
OneLine == <<"220", EndOfLine>>
=============================================================================
