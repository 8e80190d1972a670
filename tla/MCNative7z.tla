----------------------------- MODULE MCNative7z -----------------------------
EXTENDS Native7z

\* Folder 1 streams and is cut short: its last file needs a cell that is not there; folder 2 is
\* behind the cipher with a padded last block, folder 3 too, stored under another key, its last
\* cell damaged; folder 4 has a filter.
MCFolder == <<
  [start |-> 0, inSize |-> 4, need |-> <<1, 1, 3, 5>>, method |-> "LZMA", aes |-> FALSE,
   key |-> [salt |-> 0, cycles |-> 0], damage |-> 4, crc |-> TRUE],
  [start |-> 4, inSize |-> 6, need |-> <<1, 3, 5>>, method |-> "LZMA", aes |-> TRUE,
   key |-> [salt |-> 1, cycles |-> 1], damage |-> 9, crc |-> TRUE],
  [start |-> 10, inSize |-> 4, need |-> <<1, 2, 3>>, method |-> "Copy", aes |-> TRUE,
   key |-> [salt |-> 1, cycles |-> 2], damage |-> 3, crc |-> FALSE],
  [start |-> 14, inSize |-> 2, need |-> <<1, 2>>, method |-> "Filter", aes |-> FALSE,
   key |-> [salt |-> 0, cycles |-> 0], damage |-> 9, crc |-> TRUE] >>
MCFile == <<
  [folder |-> 1, offset |-> 0, size |-> 2, crc |-> TRUE],
  [folder |-> 1, offset |-> 2, size |-> 1, crc |-> FALSE],
  [folder |-> 1, offset |-> 3, size |-> 1, crc |-> TRUE],
  [folder |-> 0, offset |-> 0, size |-> 0, crc |-> FALSE],
  [folder |-> 2, offset |-> 0, size |-> 2, crc |-> FALSE],
  [folder |-> 2, offset |-> 2, size |-> 1, crc |-> TRUE],
  [folder |-> 3, offset |-> 0, size |-> 1, crc |-> FALSE],
  [folder |-> 3, offset |-> 1, size |-> 1, crc |-> FALSE],
  [folder |-> 3, offset |-> 1, size |-> 2, crc |-> TRUE],
  [folder |-> 4, offset |-> 1, size |-> 1, crc |-> TRUE] >>
=============================================================================
