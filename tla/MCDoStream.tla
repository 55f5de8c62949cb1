------------------------------- MODULE MCDoStream ------------------------------
(* DoStream with up to two redirects between two origins of one host.        *)
EXTENDS DoStream

MCOrigins == {"https://a", "http://a"}
===============================================================================
