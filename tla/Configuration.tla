---------------------------- MODULE Configuration ----------------------------
(***************************************************************************)
(* What AppConfig::validate (src/config.rs, src/live_alpha_config.rs)      *)
(* finds wrong in a configuration; a process with any such error ends      *)
(* before its command.  A value that is only looked at alone - a URL, a    *)
(* bound, a limit that must be positive - is out of range when its section *)
(* is in `flaws`; what relates settings to each other is a field:          *)
(*   feed: [provider, pyth, flaws]                                         *)
(*   alpha: [enabled, mode, taker, named, submodes, allow]; `named` is     *)
(*          whether the taker's baseline is named in full                  *)
(*   handles: of live_beta and live_trading each [env, names], the         *)
(*            environment variables of the secrets                         *)
(***************************************************************************)
EXTENDS Integers

Error(name, condition) == IF condition THEN {name} ELSE {}

(* require_reference_feed_config *)
Providers == {"none", "pyth_proxy", "chainlink", "polymarket_rtds_chainlink"}
ReferenceErrors(feed) ==
  feed.flaws
  \cup Error("provider", feed.provider \notin Providers)
  \cup Error("pyth_enabled", feed.pyth /\ feed.provider # "pyth_proxy")
  \cup Error("pyth_proxy", feed.provider = "pyth_proxy" /\ ~ feed.pyth)

(* is_pyth_proxy_enabled, is_polymarket_rtds_chainlink_enabled *)
PythEnabled(feed) == feed.provider = "pyth_proxy" /\ feed.pyth
RtdsEnabled(feed) == feed.provider = "polymarket_rtds_chainlink"

(* require_live_beta_secret_handles_config and its twin of live trading:   *)
(* no two secrets of one part are read from one variable.                  *)
HandleErrors(handles) ==
  Error("backend", ~ handles.env)
  \cup Error("duplicate handle",
             \E m, n \in DOMAIN handles.names : m < n /\ handles.names[m] = handles.names[n])

(* LiveAlphaConfig::validate and that of its submodes. *)
SubmodeErrors(alpha) ==
  Error("taker baseline", alpha.taker /\ ~ alpha.named)
  \cup Error("submode while disabled", alpha.mode = "disabled" /\ (alpha.submodes # {} \/ alpha.taker))
AlphaErrors(alpha) ==
  SubmodeErrors(alpha)
  \cup Error("quote manager without maker",
             "quote_manager" \in alpha.submodes /\ "maker" \notin alpha.submodes)
  \cup Error("taker outside its mode", alpha.taker /\ ~ (alpha.enabled /\ alpha.mode = "taker_gate"))
  \cup (alpha.allow \cap {"fok", "marketable"})
  \cup Error("fak outside its mode",
             "fak" \in alpha.allow
             /\ ~ (alpha.mode = "fill_canary" /\ "fill_canary" \in alpha.submodes))

(* AppConfig::validate, for what the commands of StartupCheck look at.     *)
ConfigErrors(config) ==
  config.flaws \cup AlphaErrors(config)
  \cup (UNION {HandleErrors(config.handles[part]) : part \in {"live_beta", "live_trading"}})
=============================================================================
