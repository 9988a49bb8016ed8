----------------------------- MODULE MCPlaylist -----------------------------
\* Playlists of up to three entries, of one source that opens and one that does not.
EXTENDS Playlist
=============================================================================
