------------------------------ MODULE MCGuests ------------------------------
EXTENDS Guests, TLC

MCTextLen == ("a" :> 1) @@ ("b" :> 2) @@ ("c" :> 3)
AllPrograms == {"pipe", "safe_thread", "flock", "sigprocmask", "alarm_signal", "sigsuspend"}
=============================================================================
