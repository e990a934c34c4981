---------------------------- MODULE ConfigLayers ---------------------------
(***************************************************************************)
(* Config::load of src/config.rs: the defaults, then the settings of the   *)
(* file, then those of the environment.  A setting has a kind, which says  *)
(* how its text is taken.  Its value is the layer that it came from; that  *)
(* of a flag is its truth.                                                 *)
(***************************************************************************)
EXTENDS FiniteSets, Sequences

Addresses == {"listen_addr", "http_listen_addr"}
Texts     == {"hostname", "spool_dir", "log_level", "dkim_key_dir", "dkim_default_selector"}
Numbers   == {"max_message_size", "max_recipients", "queue_concurrency",
              "queue_retry_initial_delay_secs", "queue_retry_backoff_multiplier",
              "queue_retry_max_delay_secs", "queue_retry_max_attempts", "dns_timeout_secs",
              "dns_cache_max_ttl_secs", "dns_cache_neg_ttl_secs", "dns_max_cname_depth"}
Flags     == {"spf_verify_enabled", "dmarc_verify_enabled", "spf_reject_fail", "dmarc_reject_fail"}
Settings  == Addresses \cup Texts \cup Numbers \cup Flags

\* Config::default: verification on, rejection off; the other values are just the default ones.
DefaultFlag(setting) ==
  IF setting \in {"spf_verify_enabled", "dmarc_verify_enabled"} THEN "true" ELSE "false"
DefaultConfig == [s \in Settings |-> IF s \in Flags THEN DefaultFlag(s) ELSE "default"]

\* A text given for a setting is "good" or "bad" where it has to parse; a flag's is "true",
\* "false" or "bad".  Every text is good for a setting that is a text itself.
Given(setting) ==
  CASE setting \in Texts -> {"good"}
    [] setting \in Flags -> {"true", "false", "bad"}
    [] OTHER             -> {"good", "bad"}

\* What a good text makes of a setting.
Taken(setting, text, layer) == IF setting \in Flags THEN text ELSE layer

-----------------------------------------------------------------------------

\* FileConfig::apply, behind the TOML parser: a value of a wrong type and an address that does
\* not parse are both hard errors.
FileAccepted(file) == \A s \in DOMAIN file : file[s] # "bad"

ApplyFile(config, file) ==
  [s \in Settings |-> IF s \in DOMAIN file THEN Taken(s, file[s], "file") ELSE config[s]]

\* Variant: a flag that does not parse is off.
ApplyEnvBadIsFalse(config, env) ==
  [s \in Settings |->
     CASE s \notin DOMAIN env -> config[s]
       [] s \in DOMAIN env /\ env[s] # "bad" -> Taken(s, env[s], "env")
       [] OTHER -> IF s \in Flags THEN "false" ELSE config[s]]

\* apply_env: what does not parse is ignored, but a flag then takes its default.
ApplyEnv(config, env) ==
  [s \in Settings |->
     CASE s \notin DOMAIN env -> config[s]
       [] s \in DOMAIN env /\ env[s] # "bad" -> Taken(s, env[s], "env")
       [] OTHER -> IF s \in Flags THEN DefaultFlag(s) ELSE config[s]]

\* load, with a file that may be absent, missing or not TOML.
LoadConfig(path, file, env) ==
  IF path = "none" THEN [ok |-> TRUE, config |-> ApplyEnv(DefaultConfig, env)]
  ELSE IF path = "unreadable" \/ ~ FileAccepted(file) THEN [ok |-> FALSE, config |-> DefaultConfig]
  ELSE [ok |-> TRUE, config |-> ApplyEnv(ApplyFile(DefaultConfig, file), env)]

=============================================================================
